---------------------------- MODULE Spec2Model ----------------------------
(***************************************************************************)
(* A model of the article pipeline of pakistan-osint-threat-assessment:    *)
(* keyword shortlisting (src/src/keywords.py), heuristic scoring, LLM      *)
(* scoring and risk fusion (src/src/analysis_layers.py) and the fetch      *)
(* primitives and discovery loop (src/src/fetcher.py, src/src/extractor.py)*)
(*                                                                         *)
(* Conventions                                                             *)
(*  - a Python str is a tuple of one-character strings, so that regular    *)
(*    expression matching, strip() and casefold() are computed;            *)
(*  - a float score is an integer number of hundredths (5875 is 58.75),    *)
(*    risk_index is in ten-thousandths because its weights multiply a      *)
(*    score that already has two decimals;                                 *)
(*  - None is the number -1 for Optional[float] fields and the string      *)
(*    "None" for Optional[str] / Optional[bool] fields.                    *)
(***************************************************************************)
EXTENDS Integers, Sequences, FiniteSets, TLC

VARIABLES
    articles,        \* the caller's list of Article objects, by position
    national_pass,   \* ShortlistResult.national_pass of the last pass (positions)
    threat_pass,     \* ShortlistResult.threat_pass of the last pass (positions)
    kw_args,         \* the (national_keywords, threat_keywords) of the last pass
    passes,          \* number of shortlist passes made so far
    scored,          \* compute_layer2_scores has run on the list
    llm,             \* the Layer 3 worker: phase, chosen articles, position
    source,          \* the source being fetched: endpoints, servers, transport
    disc,            \* fetch_discovery_items / _fetch_html: position, results
    worker,          \* WorkerFetch: configuration, stop flag, position, articles
    gui,             \* MainWindow: buttons, workers, article cache, run storage
    cascade,         \* extract_article_metadata_and_text: the page, its locals
    prompt           \* _build_llm_prompt_with_budget: the article, its locals

avars == <<articles, national_pass, threat_pass, kw_args, passes>>

\* the article pipeline, and the fetch of one source
pvars == <<articles, national_pass, threat_pass, kw_args, passes, scored, llm>>
fvars == <<source, disc>>

\* everything but the fetch worker
qvars == <<articles, national_pass, threat_pass, kw_args, passes, scored, llm,
          source, disc>>

\* everything but the main window
wvars == <<articles, national_pass, threat_pass, kw_args, passes, scored, llm,
          source, disc, worker>>

vars == <<articles, national_pass, threat_pass, kw_args, passes, scored, llm,
          source, disc, worker, gui, cascade, prompt>>

----------------------------------------------------------------------------
(* Bounds of the model *)

NumArticles == 2
MaxPasses == 2

\* _today_utc(), as a day number
TodayUtc == 40

None == -1

Arts == 1..NumArticles

----------------------------------------------------------------------------
(* Python helpers *)

\* bool(x) / Optional[bool] values as they are stored on an Article
PyBool(b) == IF b THEN "True" ELSE "False"

\* list(dict.fromkeys(xs)): drop repeats, keep the first occurrence's place
RECURSIVE DictFromKeys(_)
DictFromKeys(xs) ==
    IF xs = <<>> THEN <<>>
    ELSE LET init == DictFromKeys(SubSeq(xs, 1, Len(xs) - 1))
             last == xs[Len(xs)]
         IN  IF \E i \in 1..Len(init) : init[i] = last THEN init
             ELSE Append(init, last)

SeqToSet(xs) == {xs[i] : i \in 1..Len(xs)}

\* [x for x in xs if keep(x)]
RECURSIVE SelectPositions(_, _)
SelectPositions(n, keep) ==
    IF n = 0 THEN <<>>
    ELSE IF n \in keep THEN Append(SelectPositions(n - 1, keep), n)
         ELSE SelectPositions(n - 1, keep)

----------------------------------------------------------------------------
(* Characters.  "~" stands for U+00A0 (no-break space).                   *)

WordChars == {"a", "A", "b", "B"}
SpaceChars == {" ", "~"}

\* str.casefold() / re.IGNORECASE on one character
Fold(c) == CASE c = "A" -> "a" [] c = "B" -> "b" [] OTHER -> c

FoldStr(s) == [i \in 1..Len(s) |-> Fold(s[i])]

\* str.strip()
RECURSIVE LStrip(_)
LStrip(s) == IF s /= <<>> /\ Head(s) \in SpaceChars THEN LStrip(Tail(s)) ELSE s

RECURSIVE RStrip(_)
RStrip(s) ==
    IF s /= <<>> /\ s[Len(s)] \in SpaceChars THEN RStrip(SubSeq(s, 1, Len(s) - 1)) ELSE s

Strip(s) == RStrip(LStrip(s))

\* " ".join(parts)
RECURSIVE JoinSpace(_)
JoinSpace(parts) ==
    IF parts = <<>> THEN <<>>
    ELSE IF Len(parts) = 1 THEN parts[1]
    ELSE parts[1] \o <<" ">> \o JoinSpace(Tail(parts))

----------------------------------------------------------------------------
(* keywords.py: cleaning and matching *)

\* _clean_keywords: strip, drop empties, dedupe by casefold keeping order
RECURSIVE StripNonEmpty(_)
StripNonEmpty(kws) ==
    IF kws = <<>> THEN <<>>
    ELSE LET k2 == Strip(Head(kws))
         IN  IF k2 /= <<>> THEN <<k2>> \o StripNonEmpty(Tail(kws))
             ELSE StripNonEmpty(Tail(kws))

RECURSIVE UniqByCasefold(_)
UniqByCasefold(out) ==
    IF out = <<>> THEN <<>>
    ELSE LET init == UniqByCasefold(SubSeq(out, 1, Len(out) - 1))
             k == out[Len(out)]
         IN  IF \E i \in 1..Len(init) : FoldStr(init[i]) = FoldStr(k) THEN init
             ELSE Append(init, k)

_clean_keywords(kws) == UniqByCasefold(StripNonEmpty(kws))

\* _normalize_text: NBSP -> space, collapse whitespace runs, strip
RECURSIVE CollapseWs(_)
CollapseWs(s) ==
    IF s = <<>> THEN <<>>
    ELSE IF Head(s) \in SpaceChars THEN <<" ">> \o CollapseWs(LStrip(Tail(s)))
    ELSE <<Head(s)>> \o CollapseWs(Tail(s))

_normalize_text(s) == Strip(CollapseWs(s))

\* re.fullmatch(r"[A-Za-z0-9]+", k)
IsAlnumKeyword(k) == k /= <<>> /\ \A i \in 1..Len(k) : k[i] \in WordChars

\* the escaped keyword occurs at position i of hay, ignoring case
OccursAt(hay, k, i) ==
    /\ i + Len(k) - 1 <= Len(hay)
    /\ \A j \in 1..Len(k) : Fold(hay[i + j - 1]) = Fold(k[j])

\* \b before position i / after position i + Len(k) - 1 (k starts and ends
\* with a word character)
BoundaryAround(hay, k, i) ==
    /\ (i = 1 \/ hay[i - 1] \notin WordChars)
    /\ (i + Len(k) - 1 = Len(hay) \/ hay[i + Len(k)] \notin WordChars)

\* _compile_keyword_patterns + pat.search(hay) for one cleaned keyword
PatternSearch(k, hay) ==
    IF IsAlnumKeyword(k)
    THEN \E i \in 1..Len(hay) : OccursAt(hay, k, i) /\ BoundaryAround(hay, k, i)
    ELSE \E i \in 1..Len(hay) : OccursAt(hay, k, i)

\* _compile_keyword_patterns: the patterns are the cleaned keywords, in order
_compile_keyword_patterns(keywords) == _clean_keywords(keywords)

\* _match_keywords
RECURSIVE HitsIn(_, _)
HitsIn(hay, patterns) ==
    IF patterns = <<>> THEN <<>>
    ELSE IF PatternSearch(Head(patterns), hay)
         THEN <<Head(patterns)>> \o HitsIn(hay, Tail(patterns))
         ELSE HitsIn(hay, Tail(patterns))

_match_keywords(hay, patterns) == HitsIn(_normalize_text(hay), patterns)

\* _article_haystack
_article_haystack(a) ==
    JoinSpace(<<a.title, a.summary, a.content_text, a.url, a.author>>)


----------------------------------------------------------------------------
(* models.py: the Article record.  The text fields hold `x or ""`.         *)

\* raw of a freshly discovered article holds no kw_* key
RawFresh ==
    [has_kw |-> FALSE, kw_national_hits |-> <<>>, kw_threat_hits |-> <<>>,
     kw_shortlisted |-> "None"]

\* what the regular expressions of analysis_layers.py find in the haystack
NoSignals ==
    [pak_mentions |-> 0, location |-> FALSE, security |-> FALSE,
     named_entity |-> FALSE, numeric |-> FALSE, place_word |-> FALSE,
     citation |-> FALSE, quote_attrib |-> FALSE]

\* published_at: absent, a string no parser accepts, or an ISO date
NoDate == [kind |-> "none", day |-> 0]
BadDate == [kind |-> "bad", day |-> 0]
IsoDate(d) == [kind |-> "date", day |-> d]

\* fetcher.make_article / the dataclass defaults
NewArticle(title, content_text, url) ==
    [title |-> title, summary |-> <<>>, content_text |-> content_text,
     url |-> url, author |-> <<>>,
     country |-> "INDIA",
     published_at |-> NoDate,
     signals |-> NoSignals,
     extraction_notes |-> <<>>,
     keywords_matched |-> <<>>,
     keywords_national_matched |-> <<>>,
     keywords_threat_matched |-> <<>>,
     national_relevant |-> "None",
     threat_relevant |-> "None",
     shortlisted |-> "None",
     kw_national_hits |-> <<>>,
     kw_threat_hits |-> <<>>,
     relevance_score |-> None,
     evidence_strength |-> "None",
     evidence_numeric |-> None,
     urgency_score |-> None,
     keyword_intensity |-> None,
     prepriority_score |-> None,
     prepriority_bucket |-> "None",
     threat_score |-> None,
     threat_level |-> "None",
     threat_vector |-> "None",
     one_liner_threat |-> "None",
     reasons |-> <<>>,
     risk_index |-> None,
     raw |-> RawFresh]

\* what the model returned for an article in the current Layer 3 run
NoOutcome == [kind |-> "none", text |-> <<>>]

\* MainWindow.worker_llm before any Layer 3 run
LlmIdle ==
    [phase |-> "idle", chosen |-> <<>>, pos |-> 0, loads |-> 0,
     outs |-> [i \in Arts |-> NoOutcome]]

\* FetchResult.error / FetchOutcome.error: None, and the empty string
NoErr == <<>>
EmptyErr == <<"">>

\* no source is being fetched
NoSource == [has_curl |-> FALSE, endpoints |-> <<>>]

\* no get of an endpoint has just returned
NoGet == [ep |-> 0, ok |-> FALSE, error |-> NoErr, requests |-> 0]

\* fetch_discovery_items has not been called
DiscIdle ==
    [phase |-> "idle", ep |-> 0, purpose |-> "endpoint", attempt |-> 0,
     requests |-> 0, insecure_used |-> FALSE, last_err |-> NoErr, links |-> 0,
     found |-> FALSE, endpoint_used |-> 0, last_get |-> NoGet,
     article_server |-> "any",
     outcome |-> [ok |-> FALSE, error |-> NoErr, requests |-> 0]]

\* RunConfig before the fetch button is pressed
NoConfig ==
    [mode |-> "latest", limit_items_per_source |-> 1,
     extract_full_text |-> FALSE, on_date |-> None, from_date |-> None,
     to_date |-> None]

\* no WorkerFetch has been created
WorkerIdle ==
    [phase |-> "idle", cfg |-> NoConfig, stop |-> FALSE, src |-> 0,
     items |-> <<>>, idx |-> 0, all_articles |-> <<>>, made |-> {},
     requests |-> 0, saved |-> FALSE, signal |-> "none"]

\* extract_article_metadata_and_text before it is called.  A title is the
\* sequence of the parts its separators ("|", "-") divide it into, an author
\* the sequence of its words, a text the step it came from and its length;
\* the empty sequence stands for None and for the empty string alike
NoText == [from |-> "none", len |-> 0]

\* None or the empty string where a date string is expected
NoStr == [form |-> "none", day |-> 0, hour |-> 0, off |-> 0]

NoPage ==
    [fetch_ok |-> FALSE, soup_raises |-> FALSE,
     meta_title |-> <<>>, meta_author |-> <<>>, meta_date |-> NoStr,
     soup_title |-> <<>>, og_title |-> <<>>,
     tag_author |-> <<>>, tag_date |-> NoStr,
     ld_author |-> <<>>, ld_date |-> NoStr,
     extract_len |-> 0, ld_body |-> [len |-> 0, clean |-> 0],
     next_best |-> 0, fallback |-> 0]

CascadeIdle ==
    [phase |-> "idle", page |-> NoPage, title |-> <<>>, author |-> <<>>,
     published_iso |-> NoStr, text |-> NoText, notes |-> <<>>]

\* _build_llm_prompt_with_budget before it is called
PromptIdle ==
    [phase |-> "idle", header |-> 0, full_text |-> 0, tokenizer |-> "none",
     text_slice |-> 0, retries |-> 0, tokens |-> 0, excerpt |-> 0,
     truncated |-> FALSE]

\* MainWindow after __init__: no article in memory, no run selected, no
\* worker; data/runs holds no run yet
GuiIdle ==
    [articles_cache |-> <<>>, current_run_dir |-> 0,
     current_view_subfolder |-> "fetched",
     btn_fetch |-> TRUE, btn_stop |-> FALSE, btn_shortlist |-> TRUE,
     btn_run_llm |-> TRUE, btn_compute_layer2 |-> TRUE,
     fetch_running |-> 0, fetch_stop |-> FALSE, fetch_signal |-> "none",
     llm_running |-> 0, llm_signal |-> "none", llm_articles |-> <<>>,
     llm_linked |-> FALSE, llm_run |-> 0, llm_stage |-> "fetched",
     fetch_articles |-> <<>>, runs |-> 0, disk |-> <<>>]

----------------------------------------------------------------------------
(* keywords.py: two-layer shortlisting *)

\* the reset loop at the head of shortlist_articles_two_layer
ResetLayerFields(a) ==
    [a EXCEPT !.kw_national_hits = <<>>,
              !.kw_threat_hits = <<>>,
              !.keywords_national_matched = <<>>,
              !.keywords_threat_matched = <<>>,
              !.national_relevant = "False",
              !.threat_relevant = "False",
              !.shortlisted = "False",
              !.raw = [has_kw |-> TRUE, kw_national_hits |-> <<>>,
                       kw_threat_hits |-> <<>>, kw_shortlisted |-> "False"]]

\* the legacy union written by _write_layer1_fields
LegacyUnion(a, nat_hits, thr_hits) ==
    DictFromKeys(a.keywords_matched \o nat_hits \o thr_hits)

_write_layer1_fields(a, nat_hits, thr_hits, shortlisted) ==
    [a EXCEPT !.kw_national_hits = nat_hits,
              !.kw_threat_hits = thr_hits,
              !.shortlisted = PyBool(shortlisted),
              !.keywords_national_matched = nat_hits,
              !.keywords_threat_matched = thr_hits,
              !.national_relevant = PyBool(nat_hits /= <<>>),
              !.threat_relevant =
                  IF nat_hits /= <<>> THEN PyBool(thr_hits /= <<>>) ELSE "False",
              !.keywords_matched = LegacyUnion(a, nat_hits, thr_hits),
              !.raw = [has_kw |-> TRUE, kw_national_hits |-> nat_hits,
                       kw_threat_hits |-> thr_hits,
                       kw_shortlisted |-> PyBool(shortlisted)]]

\* Layer 1 of the pass on one article
Layer1Article(a, nat_pats) ==
    _write_layer1_fields(ResetLayerFields(a),
                         _match_keywords(_article_haystack(a), nat_pats),
                         <<>>, FALSE)

\* a flag that looks at the national hits alone
ShortlistedFlagNationalOnly(a1, thr_hits) == Len(a1.kw_national_hits) > 0

\* the shortlisted flag computed in the Layer 2 loop
ShortlistedFlag(a1, thr_hits) ==
    Len(a1.kw_national_hits) > 0 /\ Len(thr_hits) > 0

\* Layer 2 of the pass on one article that passed Layer 1
Layer2Article(a1, thr_pats) ==
    LET thr_hits == _match_keywords(_article_haystack(a1), thr_pats)
    IN  _write_layer1_fields(a1, a1.kw_national_hits, thr_hits,
                             ShortlistedFlag(a1, thr_hits))

\* the Layer 1 loop's national_pass: the articles with a national hit
NationalPassOf(arts1) == {i \in DOMAIN arts1 : arts1[i].kw_national_hits /= <<>>}

\* a threat pass that scans every article for threat hits alone
ThreatPassOfAll(arts1, np, thr_pats) ==
    {i \in DOMAIN arts1 :
        _match_keywords(_article_haystack(arts1[i]), thr_pats) /= <<>>}

\* the Layer 2 loop's threat_pass: it runs over national_pass only
ThreatPassOf(arts1, np, thr_pats) ==
    {i \in np :
        ShortlistedFlag(arts1[i], _match_keywords(_article_haystack(arts1[i]), thr_pats))}

\* shortlist_articles_two_layer(articles, national_keywords, threat_keywords)
shortlist_articles_two_layer(arts, national_keywords, threat_keywords) ==
    LET nat_pats == _compile_keyword_patterns(national_keywords)
        thr_pats == _compile_keyword_patterns(threat_keywords)
        arts1 == [i \in DOMAIN arts |-> Layer1Article(arts[i], nat_pats)]
        np == NationalPassOf(arts1)
        arts2 == [i \in DOMAIN arts |->
                    IF i \in np THEN Layer2Article(arts1[i], thr_pats) ELSE arts1[i]]
        tp == ThreatPassOf(arts1, np, thr_pats)
    IN  [articles_all |-> arts2,
         national_pass |-> SelectPositions(Len(arts), np),
         threat_pass |-> SelectPositions(Len(arts), tp)]

----------------------------------------------------------------------------
(* Inputs of the shortlisting model *)

Titles == { <<"a">>, <<"A", "b">> }
Contents == { <<>>, <<"b", "~", " ", "a">> }
Urls == { <<"-">> }

\* keyword lists as a caller may pass them: empty; blank entries and repeats
\* that differ in case; a single word; a phrase with a space and a keyword
\* with punctuation
KeywordLists ==
    { <<>>,
      << <<"A">>, <<" ", "a">>, <<" ">> >>,
      << <<"b">> >>,
      << <<"b", " ", "a">>, <<"b", "-">> >> }

InitArticles ==
    articles \in [Arts -> {NewArticle(t, c, u) : t \in Titles, c \in Contents, u \in Urls}]

InitShortlist ==
    /\ InitArticles
    /\ national_pass = <<>>
    /\ threat_pass = <<>>
    /\ kw_args = <<>>
    /\ passes = 0
    /\ scored = FALSE
    /\ llm = LlmIdle
    /\ source = NoSource
    /\ disc = DiscIdle
    /\ worker = WorkerIdle
    /\ gui = GuiIdle
    /\ cascade = CascadeIdle
    /\ prompt = PromptIdle

\* MainWindow._on_run_shortlisting: one pass over the cached articles
RunShortlisting(nat, thr) ==
    /\ passes < MaxPasses
    /\ LET res == shortlist_articles_two_layer(articles, nat, thr)
       IN  /\ articles' = res.articles_all
           /\ national_pass' = res.national_pass
           /\ threat_pass' = res.threat_pass
    /\ kw_args' = <<nat, thr>>
    /\ passes' = passes + 1
    /\ UNCHANGED <<scored, llm, source, disc, worker, gui, cascade, prompt>>

NextShortlist == \E nat \in KeywordLists, thr \in KeywordLists : RunShortlisting(nat, thr)

SpecShortlist == InitShortlist /\ [][NextShortlist]_vars

----------------------------------------------------------------------------
(* Claims about the keyword shortlist filter (SpecShortlist) *)

\* C1: after any number of shortlist passes, with any keyword lists, every
\* article of the list has shortlisted = (kw_national_hits is non-empty and
\* kw_threat_hits is non-empty).
C1_ShortlistedIffBothHit ==
    passes > 0 =>
        \A i \in Arts :
            articles[i].shortlisted =
                PyBool(articles[i].kw_national_hits /= <<>>
                       /\ articles[i].kw_threat_hits /= <<>>)

\* a second pass has left one article shortlisted and another one with
\* national hits but no threat hit
C1_Witness ==
    /\ passes = 2
    /\ \E i \in Arts : articles[i].shortlisted = "True"
    /\ \E i \in Arts :
          /\ articles[i].shortlisted = "False"
          /\ articles[i].kw_national_hits /= <<>>
          /\ articles[i].kw_threat_hits = <<>>

\* C2: in every result, threat_pass is a subset of national_pass, which is a
\* subset of the input articles, so the three sizes are ordered.
C2_FunnelMonotone ==
    /\ SeqToSet(threat_pass) \subseteq SeqToSet(national_pass)
    /\ SeqToSet(national_pass) \subseteq Arts
    /\ Len(threat_pass) <= Len(national_pass)
    /\ Len(national_pass) <= NumArticles

\* a pass that shortlisted an article and left out of national_pass an
\* article that matches a threat keyword
C2_Witness ==
    /\ passes > 0
    /\ Len(threat_pass) > 0
    /\ \E i \in Arts :
          /\ i \notin SeqToSet(national_pass)
          /\ _match_keywords(_article_haystack(articles[i]),
                             _compile_keyword_patterns(kw_args[2])) /= <<>>

\* the keywords of the keyword list kws that match article a
MatchingKeywords(a, kws) ==
    {k \in SeqToSet(_clean_keywords(kws)) :
        PatternSearch(k, _normalize_text(_article_haystack(a)))}

\* C3: after a pass with keyword lists K every hit list stored on an article
\* holds only keywords of K that match the article, whatever earlier passes
\* stored.
C3_HitListsFresh ==
    passes > 0 =>
        \A i \in Arts :
            LET a == articles[i]
                nat == MatchingKeywords(a, kw_args[1])
                thr == MatchingKeywords(a, kw_args[2])
            IN  /\ SeqToSet(a.kw_national_hits) \subseteq nat
                /\ SeqToSet(a.keywords_national_matched) \subseteq nat
                /\ SeqToSet(a.raw.kw_national_hits) \subseteq nat
                /\ SeqToSet(a.kw_threat_hits) \subseteq thr
                /\ SeqToSet(a.keywords_threat_matched) \subseteq thr
                /\ SeqToSet(a.raw.kw_threat_hits) \subseteq thr
                /\ SeqToSet(a.keywords_matched) \subseteq nat \cup thr

----------------------------------------------------------------------------
(* analysis_layers.py: Layer 2.  The helper functions return whole points; *)
(* the scores stored on an Article are in hundredths.                      *)

Min(x, y) == IF x < y THEN x ELSE y
Max(x, y) == IF x > y THEN x ELSE y

_clamp(x, lo, hi) == Max(lo, Min(hi, x))

\* a bucket function whose thresholds are strict
PrepriorityBucketStrict(v) ==
    IF v = None THEN "LOW"
    ELSE IF v > 8000 THEN "CRITICAL"
    ELSE IF v > 6000 THEN "HIGH"
    ELSE IF v > 4000 THEN "MEDIUM"
    ELSE "LOW"

_prepriority_bucket(v) ==
    IF v = None THEN "LOW"
    ELSE IF v >= 8000 THEN "CRITICAL"
    ELSE IF v >= 6000 THEN "HIGH"
    ELSE IF v >= 4000 THEN "MEDIUM"
    ELSE "LOW"

\* gui._bucket_from_prepriority
_bucket_from_prepriority(v) ==
    IF v = None THEN "NA"
    ELSE IF v >= 8000 THEN "CRITICAL"
    ELSE IF v >= 6000 THEN "HIGH"
    ELSE IF v >= 4000 THEN "MEDIUM"
    ELSE "LOW"

\* the bucket cell of a row of MainWindow._refresh_analysis_table
AnalysisRowBucket(a) ==
    IF a.prepriority_bucket /= "None" THEN a.prepriority_bucket
    ELSE _bucket_from_prepriority(a.prepriority_score)

\* _try_parse_iso_date: the calendar day, or None
_try_parse_iso_date(p) == IF p.kind = "date" THEN p.day ELSE None

\* (a.country or "").strip().upper()
StripUpper(c) ==
    CASE c = "Pakistan" -> "PAKISTAN"
      [] c = " pakistan " -> "PAKISTAN"
      [] c = "India" -> "INDIA"
      [] OTHER -> c

\* list(hits or []) or list(legacy or [])
HitsOrLegacy(hits, legacy) == IF hits /= <<>> THEN hits ELSE legacy

_count_explicit_pakistan_mentions(a) == a.signals.pak_mentions

_compute_relevance(a) ==
    LET kw_nat == HitsOrLegacy(a.kw_national_hits, a.keywords_national_matched)
        N == Min(Len(kw_nat), 10)
        P == Min(_count_explicit_pakistan_mentions(a), 5)
        L == IF a.signals.location \/ a.signals.security THEN 1 ELSE 0
        S == IF StripUpper(a.country) = "PAKISTAN" THEN 10 ELSE 0
    IN  Min(100, 10 * N + 8 * P + 25 * L + S)

_evidence_points(a) ==
    LET sig == a.signals
        pts == (IF sig.named_entity THEN 2 ELSE 0)
               + (IF sig.numeric THEN 2 ELSE 0)
               + (IF sig.location \/ sig.place_word THEN 2 ELSE 0)
               + (IF sig.citation THEN 2 ELSE 0)
               + (IF sig.quote_attrib THEN 2 ELSE 0)
    IN  _clamp(pts, 0, 10)

\* an evidence table whose LOW band reaches 4 points
EvidenceBucketWideLow(points) ==
    IF points <= 4 THEN [bucket |-> "LOW", numeric |-> 25]
    ELSE IF points <= 7 THEN [bucket |-> "MED", numeric |-> 60]
    ELSE [bucket |-> "HIGH", numeric |-> 90]

_evidence_bucket_and_numeric(points) ==
    IF points <= 3 THEN [bucket |-> "LOW", numeric |-> 25]
    ELSE IF points <= 7 THEN [bucket |-> "MED", numeric |-> 60]
    ELSE [bucket |-> "HIGH", numeric |-> 90]

\* abs((today - pub).days), 999 when there is no parsed date
AgeDays(a) ==
    LET pub == _try_parse_iso_date(a.published_at)
    IN  IF pub = None THEN 999
        ELSE IF TodayUtc >= pub THEN TodayUtc - pub ELSE pub - TodayUtc

\* the recency steps of _compute_urgency
RecencyScore(age_days) ==
    IF age_days <= 0 THEN 60
    ELSE IF age_days <= 1 THEN 55
    ELSE IF age_days <= 2 THEN 50
    ELSE IF age_days <= 3 THEN 45
    ELSE IF age_days <= 7 THEN 35
    ELSE IF age_days <= 14 THEN 25
    ELSE IF age_days <= 30 THEN 15
    ELSE 5

_compute_urgency(a) ==
    LET rec == RecencyScore(AgeDays(a))
        kw_thr == HitsOrLegacy(a.kw_threat_hits, a.keywords_threat_matched)
        thr == Min(Len(kw_thr), 10)
    IN  _clamp(rec + thr * 4, 0, 100)

_compute_keyword_intensity(a) ==
    LET kw_nat == HitsOrLegacy(a.kw_national_hits, a.keywords_national_matched)
        kw_thr == HitsOrLegacy(a.kw_threat_hits, a.keywords_threat_matched)
        total == Len(kw_nat) + Len(kw_thr)
    IN  _clamp(10 * Min(total, 10), 0, 100)

\* a weighting that swaps the weights of relevance and urgency
PrePrioritySwapped(R, U, E_num, K) == 25 * R + 45 * U + 20 * E_num + 10 * K

\* Pre = 0.45*R + 0.25*U + 0.20*E + 0.10*K, in hundredths
PrePriority(R, U, E_num, K) == 45 * R + 25 * U + 20 * E_num + 10 * K

\* the body of the loop of compute_layer2_scores
Layer2Scores(a) ==
    LET R == _compute_relevance(a)
        pts == _evidence_points(a)
        E == _evidence_bucket_and_numeric(pts)
        U == _compute_urgency(a)
        K == _compute_keyword_intensity(a)
        Pre == PrePriority(R, U, E.numeric, K)
        score == _clamp(Pre, 0, 10000)
    IN  [a EXCEPT !.relevance_score = 100 * _clamp(R, 0, 100),
                  !.evidence_strength = E.bucket,
                  !.evidence_numeric = 100 * E.numeric,
                  !.urgency_score = 100 * _clamp(U, 0, 100),
                  !.keyword_intensity = 100 * _clamp(K, 0, 100),
                  !.prepriority_score = score,
                  !.prepriority_bucket = _prepriority_bucket(score)]

compute_layer2_scores(arts) == [i \in DOMAIN arts |-> Layer2Scores(arts[i])]

----------------------------------------------------------------------------
(* Inputs of the Layer 2 model: articles as a shortlist pass leaves them  *)

\* n national keywords "a", "aa", ... and t threat keywords "b", "bb", ...
NatHitList(n) == [j \in 1..n |-> [i \in 1..j |-> "a"]]
ThrHitList(t) == [j \in 1..t |-> [i \in 1..j |-> "b"]]

\* (national hits, threat hits); a threat hit needs a national hit
HitCounts ==
    {nt \in {0, 1, 3, 10, 11} \X {0, 2, 10, 11} : nt[2] > 0 => nt[1] > 0}

SignalChoices ==
    {[pak_mentions |-> p, location |-> l, security |-> s, place_word |-> w,
      named_entity |-> k >= 1, numeric |-> k >= 2, citation |-> k >= 3,
      quote_attrib |-> k >= 4] :
        p \in {0, 1, 6}, l \in BOOLEAN, s \in BOOLEAN, w \in BOOLEAN, k \in 0..4}

Countries == {"Pakistan", " pakistan ", "India"}

\* no date, an unparseable date, and dates on both sides of every recency step
PublishedChoices ==
    {NoDate, BadDate}
        \cup {IsoDate(TodayUtc - g) : g \in {-1, 0, 1, 2, 3, 4, 7, 8, 14, 15, 30, 31}}

\* an article whose text holds the keywords, after the shortlist pass
ShortlistedHits(n, t) ==
    LET nat == NatHitList(n)
        thr == ThrHitList(t)
        a0 == NewArticle(<<"a">>, JoinSpace(nat \o thr), <<"-">>)
    IN  _write_layer1_fields(ResetLayerFields(a0), nat, thr, n > 0 /\ t > 0)

ShortlistedInput(n, t, sig, c, pub) ==
    [ShortlistedHits(n, t) EXCEPT !.country = c, !.published_at = pub,
                                  !.signals = sig]

Layer2Inputs ==
    {[a1 EXCEPT !.country = c, !.published_at = pub, !.signals = sig] :
        a1 \in {ShortlistedHits(nt[1], nt[2]) : nt \in HitCounts},
        sig \in SignalChoices, c \in Countries, pub \in PublishedChoices}

\* the other articles of the list: three national and two threat hits in
\* an Indian article of today that names a Pakistani city and an official
Layer2Companions ==
    {ShortlistedInput(3, 2,
                      [NoSignals EXCEPT !.location = TRUE, !.named_entity = TRUE],
                      "India", IsoDate(TodayUtc))}

InitLayer2 ==
    /\ \E first \in Layer2Inputs, rest \in [Arts \ {1} -> Layer2Companions] :
           articles = [i \in Arts |-> IF i = 1 THEN first ELSE rest[i]]
    /\ national_pass = SelectPositions(NumArticles, NationalPassOf(articles))
    /\ threat_pass =
           SelectPositions(NumArticles,
                           {i \in Arts : articles[i].shortlisted = "True"})
    /\ kw_args = <<>>
    /\ passes = 1
    /\ scored = FALSE
    /\ llm = LlmIdle
    /\ source = NoSource
    /\ disc = DiscIdle
    /\ worker = WorkerIdle
    /\ gui = GuiIdle
    /\ cascade = CascadeIdle
    /\ prompt = PromptIdle

\* MainWindow._on_compute_layer2 (the article list in memory)
ComputeLayer2 ==
    /\ articles' = compute_layer2_scores(articles)
    /\ scored' = TRUE
    /\ UNCHANGED <<national_pass, threat_pass, kw_args, passes, llm, source, disc, worker, gui, cascade, prompt>>

NextLayer2 == ComputeLayer2

SpecLayer2 == InitLayer2 /\ [][NextLayer2]_vars

----------------------------------------------------------------------------
(* Claims about the Layer 2 scores (SpecLayer2) *)

Percent == 0..10000

\* C4: after compute_layer2_scores every article has relevance_score,
\* urgency_score, keyword_intensity and prepriority_score in [0,100] and an
\* evidence_numeric of 25, 60 or 90: LOW/25 for at most 3 evidence points,
\* MED/60 for 4 to 7, HIGH/90 for 8 or more.
C4_ScoresInRange ==
    scored =>
        \A i \in Arts :
            LET a == articles[i]
                pts == _evidence_points(a)
            IN  /\ a.relevance_score \in Percent
                /\ a.urgency_score \in Percent
                /\ a.keyword_intensity \in Percent
                /\ a.prepriority_score \in Percent
                /\ a.evidence_numeric \in {2500, 6000, 9000}
                /\ pts <= 3 =>
                       a.evidence_strength = "LOW" /\ a.evidence_numeric = 2500
                /\ (4 <= pts /\ pts <= 7) =>
                       a.evidence_strength = "MED" /\ a.evidence_numeric = 6000
                /\ pts >= 8 =>
                       a.evidence_strength = "HIGH" /\ a.evidence_numeric = 9000

\* scored articles at the caps (eleven hits of each kind, relevance 100,
\* keyword intensity 100, urgency 100, evidence HIGH) next to one with
\* exactly 4 evidence points
C4_Witness ==
    /\ scored
    /\ \E i \in Arts :
          /\ Len(articles[i].kw_national_hits) = 11
          /\ Len(articles[i].kw_threat_hits) = 11
          /\ articles[i].relevance_score = 10000
          /\ articles[i].urgency_score = 10000
          /\ articles[i].keyword_intensity = 10000
          /\ articles[i].evidence_strength = "HIGH"
    /\ \E i \in Arts :
          /\ _evidence_points(articles[i]) = 4
          /\ articles[i].evidence_strength = "MED"

\* the bucket the thresholds 80/60/40 give a score
C5_BucketOf(score) ==
    IF score >= 8000 THEN "CRITICAL"
    ELSE IF 6000 <= score /\ score < 8000 THEN "HIGH"
    ELSE IF 4000 <= score /\ score < 6000 THEN "MEDIUM"
    ELSE "LOW"

\* C5: after Layer 2 the bucket of every article is the bucket of its
\* prepriority_score under the thresholds 80/60/40, the scorer and the UI
\* derive the same bucket from every score, and 80.0 is CRITICAL, 60.0 HIGH,
\* 40.0 MEDIUM, 39.99 LOW.
C5_BucketFromScore ==
    /\ scored =>
          \A i \in Arts :
              /\ articles[i].prepriority_bucket
                     = C5_BucketOf(articles[i].prepriority_score)
              /\ _bucket_from_prepriority(articles[i].prepriority_score)
                     = articles[i].prepriority_bucket
              /\ AnalysisRowBucket(articles[i]) = articles[i].prepriority_bucket
    /\ \A v \in {0, 3995, 3999, 4000, 5999, 6000, 7999, 8000, 10000} :
          /\ _prepriority_bucket(v) = C5_BucketOf(v)
          /\ _bucket_from_prepriority(v) = _prepriority_bucket(v)
    /\ _prepriority_bucket(8000) = "CRITICAL"
    /\ _prepriority_bucket(6000) = "HIGH"
    /\ _prepriority_bucket(4000) = "MEDIUM"
    /\ _prepriority_bucket(3999) = "LOW"

\* a scored article whose prepriority_score is exactly 80.0
C5_Witness ==
    /\ scored
    /\ \E i \in Arts :
          /\ articles[i].prepriority_score = 8000
          /\ articles[i].prepriority_bucket = "CRITICAL"

\* the recency step of an age in days
C8_Recency(age) ==
    CASE age = 0 -> 60
      [] age = 1 -> 55
      [] age = 2 -> 50
      [] age = 3 -> 45
      [] age > 3 /\ age <= 7 -> 35
      [] age > 7 /\ age <= 14 -> 25
      [] age > 14 /\ age <= 30 -> 15
      [] OTHER -> 5

\* the inputs of the formulas, read off an article
C8_Inputs(a) ==
    [N |-> Min(Len(a.kw_national_hits), 10),
     P |-> Min(a.signals.pak_mentions, 5),
     L |-> IF a.signals.location \/ a.signals.security THEN 1 ELSE 0,
     S |-> IF a.country \in {"Pakistan", " pakistan "} THEN 10 ELSE 0,
     nat |-> Len(a.kw_national_hits),
     thr |-> Len(a.kw_threat_hits),
     age |-> IF a.published_at.kind /= "date" THEN 999
             ELSE IF a.published_at.day <= TodayUtc
                  THEN TodayUtc - a.published_at.day
                  ELSE a.published_at.day - TodayUtc,
     E |-> a.evidence_numeric]

\* C8: Layer 2 stores R = min(100, 10*min(N,10) + 8*min(P,5) + 25*L + S),
\* U = clamp(recency(age) + 4*min(threat hits,10)), K = 10*min(national +
\* threat hits, 10) and PrePriority = clamp(0.45R + 0.25U + 0.20E + 0.10K);
\* an article with N=3, P=0, L=1, S=0, 2 threat hits, age 0 and evidence
\* MED/60 gets R=55, U=68, K=50, PrePriority=58.75 and bucket MEDIUM.
C8_Layer2Formulas ==
    scored =>
        \A i \in Arts :
            LET a == articles[i]
                x == C8_Inputs(a)
                R == Min(100, 10 * x.N + 8 * x.P + 25 * x.L + x.S)
                U == Max(0, Min(100, C8_Recency(x.age) + 4 * Min(x.thr, 10)))
                K == 10 * Min(x.nat + x.thr, 10)
            IN  /\ a.relevance_score = 100 * R
                /\ a.urgency_score = 100 * U
                /\ a.keyword_intensity = 100 * K
                /\ a.prepriority_score
                       = Max(0, Min(10000, 45 * R + 25 * U
                                           + (20 * x.E) \div 100 + 10 * K))
                /\ (x.N = 3 /\ x.nat = 3 /\ x.P = 0 /\ x.L = 1 /\ x.S = 0
                    /\ x.thr = 2 /\ x.age = 0 /\ x.E = 6000) =>
                       /\ a.relevance_score = 5500
                       /\ a.urgency_score = 6800
                       /\ a.keyword_intensity = 5000
                       /\ a.prepriority_score = 5875
                       /\ a.prepriority_bucket = "MEDIUM"

\* the scored list holds an article of the scenario, and one whose relevance
\* sum passed 100 before the cap
C8_Witness ==
    /\ scored
    /\ \E i \in Arts :
          LET x == C8_Inputs(articles[i])
          IN  /\ x.N = 3 /\ x.nat = 3 /\ x.P = 0 /\ x.L = 1 /\ x.S = 0
              /\ x.thr = 2 /\ x.age = 0 /\ x.E = 6000
              /\ articles[i].prepriority_score = 5875
    /\ \E i \in Arts :
          LET x == C8_Inputs(articles[i])
          IN  10 * x.N + 8 * x.P + 25 * x.L + x.S > 100

----------------------------------------------------------------------------
(* analysis_layers.py: Layer 3.  A completion is a sequence of tokens:     *)
(* "junk" is text without braces, "{" and "}" are braces, and any other    *)
(* token names the members written between a pair of braces.               *)

\* x or d, for an Optional[float] and for an Optional[str]
FloatOr(x, d) == IF x = None \/ x = 0 THEN d ELSE x
StrOr(x, d) == IF x = "None" \/ x = "" THEN d ELSE x

\* the members of the JSON objects a completion may hold
JsonMembers(name) ==
    CASE name = "P82" ->
           [threat_score |-> [kind |-> "num", v |-> 8200],
            threat_level |-> "LOW", threat_vector |-> "bomb",
            one_liner_threat |-> "x",
            reasons |-> [kind |-> "list",
                         items |-> << <<"a">>, <<"b">>, <<"A">>, <<"B">>,
                                      <<"a", "b">> >>]]
      [] name = "P150" ->
           [threat_score |-> [kind |-> "num", v |-> 15000],
            threat_level |-> "LOW", threat_vector |-> " cyber ",
            one_liner_threat |-> "x",
            reasons |-> [kind |-> "list",
                         items |-> << <<" ">>, <<"a">>, <<>>,
                                      <<" ", "b", "~">> >>]]
      [] name = "Pstr" ->
           [threat_score |-> [kind |-> "numstr", v |-> 2499],
            threat_level |-> "CRITICAL", threat_vector |-> "null",
            one_liner_threat |-> "null",
            reasons |-> [kind |-> "notlist", items |-> <<>>]]
      [] OTHER ->
           [threat_score |-> [kind |-> "badstr", v |-> 0],
            threat_level |-> "absent", threat_vector |-> "absent",
            one_liner_threat |-> "absent",
            reasons |-> [kind |-> "absent", items |-> <<>>]]

JsonNames == {"P82", "P150", "Pstr", "Pbad"}

\* _coerce_float(obj.get("threat_score", 0.0), 0.0)
_coerce_float(v, default) ==
    IF v.kind \in {"num", "numstr"} THEN v.v ELSE default

_threat_level_from_score(t) ==
    IF t >= 7500 THEN "CRITICAL"
    ELSE IF t >= 5000 THEN "HIGH"
    ELSE IF t >= 2500 THEN "MED"
    ELSE "LOW"

\* str(obj.get("threat_vector", "") or "OTHER"), stripped and upper-cased
VectorText(v) ==
    CASE v \in {"null", "absent", ""} -> "OTHER"
      [] v = " cyber " -> "CYBER"
      [] v = "bomb" -> "BOMB"
      [] OTHER -> v

_clean_vector(v) ==
    IF v \in {"MILITARY", "TERROR", "CYBER", "DIPLO", "ECON", "INTERNAL", "OTHER"}
    THEN v ELSE "OTHER"

\* _safe_text(obj.get("one_liner_threat", "") or "")
OneLinerText(v) == IF v \in {"null", "absent"} THEN "" ELSE v

\* [str(x).strip() for x in rs if str(x).strip()][:6], then [:4] if longer
ReasonsOf(rs) ==
    LET lst == IF rs.kind = "list" THEN rs.items ELSE <<>>
        kept == StripNonEmpty(lst)
        six == SubSeq(kept, 1, Min(Len(kept), 6))
    IN  IF Len(six) > 4 THEN SubSeq(six, 1, 4) ELSE six

\* json.loads(t) when it gives a dict: the name of its members, "{}" for
\* the empty object, "None" when t is not one JSON object
JsonLoadsDict(t) ==
    IF Len(t) = 3 /\ t[1] = "{" /\ t[2] \in JsonNames /\ t[3] = "}" THEN t[2]
    ELSE IF t = <<"{", "}">> THEN "{}"
    ELSE "None"

\* re.search(r"\{[\s\S]*\}", t): from the first "{" to the last "}"
GreedyBraceMatch(t) ==
    LET opens == {i \in 1..Len(t) : t[i] = "{"}
        first == CHOOSE i \in opens : \A j \in opens : i <= j
        closes == {i \in 1..Len(t) : t[i] = "}" /\ i > first}
        last == CHOOSE i \in closes : \A j \in closes : j <= i
    IN  IF opens = {} THEN <<>>
        ELSE IF closes = {} THEN <<>>
        ELSE SubSeq(t, first, last)

_extract_json_object(text) ==
    IF text = <<>> THEN "None"
    ELSE IF JsonLoadsDict(text) /= "None" THEN JsonLoadsDict(text)
    ELSE IF GreedyBraceMatch(text) = <<>> THEN "None"
    ELSE JsonLoadsDict(GreedyBraceMatch(text))

\* an `except` branch that leaves the article as it was
LlmErrorPathSilent(a) == a

\* the two except branches of the scoring loop (OSError, Exception)
LlmErrorPath(a) ==
    LET score == FloatOr(a.threat_score, 0)
    IN  [a EXCEPT !.threat_score = score,
                  !.threat_level =
                      StrOr(a.threat_level,
                            _threat_level_from_score(FloatOr(score, 0))),
                  !.threat_vector = StrOr(a.threat_vector, "OTHER"),
                  !.one_liner_threat = StrOr(a.one_liner_threat, ""),
                  !.extraction_notes = Append(a.extraction_notes, "LLM_ERROR")]

\* the `if not obj` branch
LlmParseErrorPath(a) ==
    LET score == IF a.threat_score /= None THEN a.threat_score ELSE 0
    IN  [a EXCEPT !.threat_score = score,
                  !.threat_level =
                      StrOr(a.threat_level,
                            _threat_level_from_score(FloatOr(score, 0))),
                  !.threat_vector = StrOr(a.threat_vector, "OTHER"),
                  !.one_liner_threat = StrOr(a.one_liner_threat, ""),
                  !.extraction_notes =
                      Append(a.extraction_notes, "LLM_PARSE_ERROR")]

\* the end of the loop body: the fields taken from the parsed object
LlmSuccessPath(a, obj) ==
    LET t == _clamp(_coerce_float(obj.threat_score, 0), 0, 10000)
    IN  [a EXCEPT !.threat_score = t,
                  !.threat_level = _threat_level_from_score(t),
                  !.threat_vector = _clean_vector(VectorText(obj.threat_vector)),
                  !.one_liner_threat = OneLinerText(obj.one_liner_threat),
                  !.reasons = ReasonsOf(obj.reasons)]

\* one iteration of the loop of run_layer3_llm_scoring
ScoreOne(a, out) ==
    IF out.kind = "error" THEN LlmErrorPath(a)
    ELSE LET obj == _extract_json_object(out.text)
         IN  IF obj \in {"None", "{}"} THEN LlmParseErrorPath(a)
             ELSE LlmSuccessPath(a, JsonMembers(obj))

\* compute_risk_index on one article; risk_index is in ten-thousandths
RiskIndexOf(a) ==
    LET T == FloatOr(a.threat_score, 0)
        R == FloatOr(a.relevance_score, 0)
        U == FloatOr(a.urgency_score, 2000)
        E == FloatOr(a.evidence_numeric, 2500)
    IN  _clamp(45 * T + 35 * R + 10 * U + 10 * E, 0, 1000000)

compute_risk_index(arts, chosen) ==
    [i \in DOMAIN arts |->
        IF i \in chosen THEN [arts[i] EXCEPT !.risk_index = RiskIndexOf(arts[i])]
        ELSE arts[i]]

\* items.sort(key=prepriority_score, reverse=True): stable, best first
RECURSIVE SortByScoreDesc(_, _)
SortByScoreDesc(arts, S) ==
    IF S = {} THEN <<>>
    ELSE LET best == CHOOSE i \in S :
                        \A j \in S :
                            \/ FloatOr(arts[i].prepriority_score, 0)
                                   > FloatOr(arts[j].prepriority_score, 0)
                            \/ /\ FloatOr(arts[i].prepriority_score, 0)
                                      = FloatOr(arts[j].prepriority_score, 0)
                               /\ i <= j
         IN  <<best>> \o SortByScoreDesc(arts, S \ {best})

\* select_articles_for_llm: the list after the Layer 2 fill-in, and the
\* positions of the chosen articles
select_articles_for_llm(arts, mode, top_n, threshold) ==
    LET filled == [i \in DOMAIN arts |->
                      IF arts[i].prepriority_score = None
                      THEN Layer2Scores(arts[i]) ELSE arts[i]]
        items == SortByScoreDesc(filled, DOMAIN arts)
        over == {k \in 1..Len(items) :
                    FloatOr(filled[items[k]].prepriority_score, 0)
                        >= 100 * threshold}
    IN  [articles |-> filled,
         chosen |-> IF mode = "threshold"
                    THEN [k \in 1..Cardinality(over) |->
                             items[SelectPositions(Len(items), over)[k]]]
                    ELSE SubSeq(items, 1, Min(Len(items), Max(0, top_n)))]

----------------------------------------------------------------------------
(* Layer 3 model: MainWindow._on_run_llm starts WorkerLLM, whose run loads *)
(* the model, scores the chosen articles one by one and fuses the scores.  *)

\* threat fields of an article before the run: never scored; scored by an
\* earlier run; and read from a stored run (Article.from_dict copies
\* threat_score and threat_level from the file as they are)
StoredThreatFields ==
    {[threat_score |-> None, threat_level |-> "None", threat_vector |-> "None",
      one_liner_threat |-> "None", reasons |-> <<>>],
     [threat_score |-> 8200, threat_level |-> "CRITICAL",
      threat_vector |-> "OTHER", one_liner_threat |-> "x",
      reasons |-> << <<"a">> >>],
     [threat_score |-> 1000, threat_level |-> "HIGH",
      threat_vector |-> "TERROR", one_liner_threat |-> "x",
      reasons |-> << <<"a">> >>],
     [threat_score |-> None, threat_level |-> "HIGH", threat_vector |-> "None",
      one_liner_threat |-> "None", reasons |-> <<>>]}

WithThreatFields(a, f) ==
    [a EXCEPT !.threat_score = f.threat_score,
              !.threat_level = f.threat_level,
              !.threat_vector = f.threat_vector,
              !.one_liner_threat = f.one_liner_threat,
              !.reasons = f.reasons]

AllSignals ==
    [pak_mentions |-> 6, location |-> TRUE, security |-> TRUE,
     named_entity |-> TRUE, numeric |-> TRUE, place_word |-> TRUE,
     citation |-> TRUE, quote_attrib |-> TRUE]

\* the first article: scored by Layer 2 (58.75), or not yet scored (it
\* would get 98.0)
Layer3Inputs ==
    {WithThreatFields(b, f) :
        b \in {Layer2Scores(ShortlistedInput(3, 2,
                   [NoSignals EXCEPT !.location = TRUE, !.named_entity = TRUE],
                   "India", IsoDate(TodayUtc))),
               ShortlistedInput(11, 11, AllSignals, "Pakistan",
                                IsoDate(TodayUtc))},
        f \in StoredThreatFields}

\* the other articles: scored by Layer 2 (63.25), never scored by Layer 3
Layer3Companions ==
    {Layer2Scores(ShortlistedInput(3, 2,
         [NoSignals EXCEPT !.location = TRUE, !.named_entity = TRUE],
         "Pakistan", IsoDate(TodayUtc)))}

\* what the model call gives for one article: an exception, or a completion
Completions ==
    { <<>>, <<"junk">>, <<"{", "}">>, <<"{", "P82">>,
      <<"{", "P82", "}">>, <<"{", "P150", "}">>, <<"{", "Pstr", "}">>,
      <<"{", "Pbad", "}">>,
      <<"junk", "{", "P82", "}", "junk">>,
      <<"junk", "}", "{", "Pstr", "}">>,
      <<"junk", "{", "P82", "}", "junk", "{", "junk", "}">>,
      <<"{", "P82", "}", "{", "P150", "}">> }

Outcomes ==
    {[kind |-> "error", text |-> <<>>]}
        \cup {[kind |-> "text", text |-> c] : c \in Completions}

LlmModes == {"shortlisted", "top_n", "threshold"}
TopNChoices == {1, NumArticles}
ThresholdChoices == {60, 100}

InitLayer3 ==
    /\ \E first \in Layer3Inputs, rest \in [Arts \ {1} -> Layer3Companions] :
           articles = [i \in Arts |-> IF i = 1 THEN first ELSE rest[i]]
    /\ national_pass = SelectPositions(NumArticles, NationalPassOf(articles))
    /\ threat_pass =
           SelectPositions(NumArticles,
                           {i \in Arts : articles[i].shortlisted = "True"})
    /\ kw_args = <<>>
    /\ passes = 1
    /\ scored = FALSE
    /\ llm = LlmIdle
    /\ source = NoSource
    /\ disc = DiscIdle
    /\ worker = WorkerIdle
    /\ gui = GuiIdle
    /\ cascade = CascadeIdle
    /\ prompt = PromptIdle

\* MainWindow._on_run_llm
RunLLM(mode, top_n, threshold) ==
    /\ llm.phase = "idle"
    /\ LET sel == select_articles_for_llm(articles, mode, top_n, threshold)
       IN  /\ articles' = sel.articles
           /\ llm' = IF sel.chosen = <<>> THEN llm
                     ELSE [llm EXCEPT !.phase = "loading",
                                      !.chosen = sel.chosen, !.pos = 1]
    /\ UNCHANGED <<national_pass, threat_pass, kw_args, passes, scored, source, disc, worker, gui, cascade, prompt>>

\* run_layer3_llm_scoring up to its loop: _load_llama is called twice
LoadModel(result) ==
    /\ llm.phase = "loading"
    /\ llm' = [llm EXCEPT
                  !.phase = IF result = "ok" THEN "scoring" ELSE "failed",
                  !.loads = IF result = "fail_first" THEN @ + 1 ELSE @ + 2]
    /\ UNCHANGED <<articles, national_pass, threat_pass, kw_args, passes, scored,
                   source, disc, worker, gui, cascade, prompt>>

\* one iteration of the scoring loop
ScoreNext(out) ==
    /\ llm.phase = "scoring"
    /\ llm.pos <= Len(llm.chosen)
    /\ LET i == llm.chosen[llm.pos]
       IN  /\ articles' = [articles EXCEPT ![i] = ScoreOne(articles[i], out)]
           /\ llm' = [llm EXCEPT !.pos = @ + 1, !.outs[i] = out]
    /\ UNCHANGED <<national_pass, threat_pass, kw_args, passes, scored, source, disc, worker, gui, cascade, prompt>>

\* the loop is over: run_layer3_llm_scoring returns and WorkerLLM.run calls
\* compute_risk_index on the chosen articles
FinishLLM ==
    /\ llm.phase = "scoring"
    /\ llm.pos > Len(llm.chosen)
    /\ articles' = compute_risk_index(articles, SeqToSet(llm.chosen))
    /\ llm' = [llm EXCEPT !.phase = "done"]
    /\ UNCHANGED <<national_pass, threat_pass, kw_args, passes, scored, source, disc, worker, gui, cascade, prompt>>

NextLayer3 ==
    \/ \E mode \in LlmModes, top_n \in TopNChoices, threshold \in ThresholdChoices :
           RunLLM(mode, top_n, threshold)
    \/ \E result \in {"ok", "fail_first", "fail_second"} : LoadModel(result)
    \/ \E out \in Outcomes : ScoreNext(out)
    \/ FinishLLM

SpecLayer3 == InitLayer3 /\ [][NextLayer3]_vars

----------------------------------------------------------------------------
(* Risk fusion on its own: compute_risk_index applied to loaded articles   *)

\* score fields of a loaded article, absent or within their ranges
RiskInputs ==
    {[T |-> t, R |-> r, U |-> u, E |-> e] :
        t \in {None, 0, 8200, 10000}, r \in {None, 0, 5500, 10000},
        u \in {None, 0, 500, 10000}, e \in {None, 2500, 6000, 9000}}

WithScoreFields(a, x) ==
    [a EXCEPT !.threat_score = x.T, !.relevance_score = x.R,
              !.urgency_score = x.U, !.evidence_numeric = x.E]

InitRisk ==
    /\ \E x \in RiskInputs :
           articles = [i \in Arts |->
                          IF i = 1
                          THEN WithScoreFields(ShortlistedHits(1, 0), x)
                          ELSE Layer2Scores(ShortlistedHits(1, 0))]
    /\ national_pass = SelectPositions(NumArticles, NationalPassOf(articles))
    /\ threat_pass = <<>>
    /\ kw_args = <<>>
    /\ passes = 1
    /\ scored = FALSE
    /\ llm = LlmIdle
    /\ source = NoSource
    /\ disc = DiscIdle
    /\ worker = WorkerIdle
    /\ gui = GuiIdle
    /\ cascade = CascadeIdle
    /\ prompt = PromptIdle

\* compute_risk_index(articles)
FuseRisk ==
    /\ articles' = compute_risk_index(articles, Arts)
    /\ UNCHANGED <<national_pass, threat_pass, kw_args, passes, scored, llm,
                   source, disc, worker, gui, cascade, prompt>>

NextRisk == FuseRisk

SpecRisk == InitRisk /\ [][NextRisk]_vars

----------------------------------------------------------------------------
(* fetcher.py / extractor.py: one source's discovery and one page fetch.   *)
(* A request is answered by a status with a body, or by an exception.      *)

RETRIES == 3

\* endpoints of the source, and links found on a directory or index page
NumEndpoints == 2
MaxLinks == 1

Responses ==
    {"200_xml", "200_html", "200_empty", "403", "500", "ssl_error", "conn_error"}

\* what curl_requests.get gives when curl_cffi is installed
CurlResponses == {"200_xml", "200_html", "403", "raise"}

ServerResponses(server) == IF server = "always403" THEN {"403"} ELSE Responses

Is2xx(r) == r \in {"200_xml", "200_html", "200_empty"}
IsStatus(r) == r \in {"200_xml", "200_html", "200_empty", "403", "500"}

\* the bytes read from a response
DataOf(r) ==
    CASE r = "200_xml" -> "xml"
      [] r \in {"200_html", "403", "500"} -> "html"
      [] OTHER -> "none"

\* fr2.ok and data2
CurlOk(c) == c \in {"200_xml", "200_html"}

\* the loop of a get returns a result ...
Ret(ok, error, data, insecure_used, n) ==
    [done |-> TRUE, ok |-> ok, error |-> error, data |-> data,
     last_err |-> NoErr, insecure_used |-> insecure_used, requests |-> n]

\* ... or sleeps and goes round again
Retry(last_err, insecure_used, n) ==
    [done |-> FALSE, ok |-> FALSE, error |-> NoErr, data |-> "none",
     last_err |-> last_err, insecure_used |-> insecure_used, requests |-> n]

\* one iteration of the loop of SmartHTTP.get (403 stands for the statuses
\* 403 and 429, 500 for the other error statuses): r answers sess.get, c answers
\* the curl_cffi request and r2 the request with verify=False, when made
SmartHttpAttempt(has_curl, expect, insecure_used, r, c, r2) ==
    IF Is2xx(r) THEN
        IF expect = "xml" /\ r = "200_html" /\ has_curl THEN
            IF c = "raise" THEN Retry(<<"curl_cffi", "error">>, insecure_used, 1)
            ELSE IF c = "200_xml" THEN Ret(TRUE, NoErr, "xml", insecure_used, 1)
            ELSE Ret(FALSE, <<"Expected XML but received HTML/blocked page">>,
                     "html", insecure_used, 1)
        ELSE Ret(TRUE, NoErr, DataOf(r), insecure_used, 1)
    ELSE IF IsStatus(r) THEN
        IF r = "403" /\ has_curl /\ c = "raise"
        THEN Retry(<<"curl_cffi", "error">>, insecure_used, 1)
        ELSE IF r = "403" /\ has_curl /\ CurlOk(c)
        THEN Ret(TRUE, NoErr, DataOf(c), insecure_used, 1)
        ELSE Retry(<<"HTTP", r>>, insecure_used, 1)
    ELSE IF r = "ssl_error" THEN
        IF has_curl /\ CurlOk(c) /\ (expect /= "xml" \/ c = "200_xml")
        THEN Ret(TRUE, NoErr, DataOf(c), insecure_used, 1)
        ELSE IF ~insecure_used THEN
            IF IsStatus(r2)
            THEN Ret(Is2xx(r2), NoErr, DataOf(r2), TRUE, 2)
            ELSE Retry(<<"TLS verify failed then insecure failed", r2>>, TRUE, 2)
        ELSE Retry(<<"SSLError">>, insecure_used, 1)
    ELSE IF has_curl /\ expect = "xml" /\ c = "200_xml"
    THEN Ret(TRUE, NoErr, "xml", insecure_used, 1)
    ELSE Retry(<<"ConnectionError">>, insecure_used, 1)

\* one iteration of the loop of extractor._fetch_html
FetchHtmlAttempt(has_curl, insecure_used, r, c, r2) ==
    IF IsStatus(r) THEN
        IF r = "403" /\ has_curl /\ CurlOk(c)
        THEN Ret(TRUE, NoErr, DataOf(c), insecure_used, 1)
        ELSE IF ~Is2xx(r) THEN Retry(<<"RuntimeError: HTTP", r>>, insecure_used, 1)
        ELSE IF r = "200_empty"
        THEN Retry(<<"RuntimeError: empty response body">>, insecure_used, 1)
        ELSE Ret(TRUE, NoErr, DataOf(r), insecure_used, 1)
    ELSE IF r = "ssl_error" /\ ~insecure_used THEN
        IF r2 \in {"200_xml", "200_html"} THEN Ret(TRUE, NoErr, DataOf(r2), TRUE, 2)
        ELSE Retry(<<"insecure TLS fetch failed", r2>>, TRUE, 2)
    ELSE IF r = "ssl_error" THEN Retry(<<"SSLError">>, insecure_used, 1)
    ELSE Retry(<<"ConnectionError">>, insecure_used, 1)

\* the requests an iteration makes besides sess.get
CurlChoices(has_curl, expect, r) ==
    IF has_curl /\ (r \in {"403", "ssl_error"}
                    \/ (expect = "xml" /\ r \in {"200_html", "conn_error"}))
    THEN CurlResponses ELSE {"unused"}

InsecureChoices(insecure_used, r) ==
    IF r = "ssl_error" /\ ~insecure_used THEN Responses ELSE {"unused"}

\* the expect argument of the get made for an endpoint or a nested link
ExpectOf(type, purpose) ==
    IF purpose /= "endpoint" THEN "xml"
    ELSE IF type \in {"RSS", "SITEMAP_INDEX"} THEN "xml"
    ELSE "any"

\* a get starts: attempt 1, nothing requested yet
BeginGet(d, p, purpose, links) ==
    [d EXCEPT !.phase = "get", !.ep = p, !.purpose = purpose, !.links = links,
              !.attempt = 1, !.requests = 0, !.insecure_used = FALSE,
              !.last_err = NoErr]

\* the loop over the endpoints has ended: its variables and those of the
\* last get are gone, what is returned remains
EndLoop(d, found) ==
    [d EXCEPT !.phase = "done", !.found = found, !.ep = 0,
              !.purpose = "endpoint", !.links = 0, !.attempt = 0,
              !.requests = 0, !.insecure_used = FALSE, !.last_err = NoErr]

\* the head of the loop over the endpoints, from position p on: endpoints
\* that are not enabled are not in the list, the others are tried in order
RECURSIVE ScanEndpoints(_, _, _)
ScanEndpoints(eps, d, p) ==
    IF p > Len(eps) THEN EndLoop(d, d.found)
    ELSE IF ~eps[p].enabled THEN ScanEndpoints(eps, d, p + 1)
    ELSE BeginGet([d EXCEPT !.endpoint_used = p], p, "endpoint", 0)

\* a discovery that stops at the first endpoint whose fetch fails
AbandonSource(eps, d) == EndLoop(d, d.found)

\* `continue`: on to the next enabled endpoint
ContinueEndpoints(eps, d) == ScanEndpoints(eps, d, d.ep + 1)

\* `break`: candidates were found, the loop over the endpoints ends
BreakEndpoints(d) == EndLoop(d, TRUE)

\* the code that follows a get of fetch_discovery_items, up to the next get
\* or the end of the loop; fr is the FetchResult with its data, n the number
\* of candidates or links taken from the data (for a feed of a directory:
\* of items parsed), index tells a sitemap index, pushed tells that an item
\* of the feed of a directory has an http URL and became a candidate
AfterGet(eps, d0, fr, n, index, pushed) ==
    LET d == IF d0.purpose /= "endpoint" THEN d0
             ELSE [d0 EXCEPT !.last_get = [ep |-> d0.ep, ok |-> fr.ok,
                                           error |-> fr.error,
                                           requests |-> d0.requests]]
        type == eps[d.ep].type
        failed == ~fr.ok \/ fr.data = "none"
        more == IF d.links > 1 THEN BeginGet(d, d.ep, d.purpose, d.links - 1)
                ELSE IF d.found THEN BreakEndpoints(d)
                ELSE ContinueEndpoints(eps, d)
    IN  IF d.purpose = "endpoint" THEN
            IF failed THEN ContinueEndpoints(eps, d)
            ELSE IF type \in {"RSS", "HTML_LISTING"} THEN
                IF n > 0 THEN BreakEndpoints(d) ELSE ContinueEndpoints(eps, d)
            ELSE IF type = "FEED_DIRECTORY" THEN
                IF n > 0 THEN BeginGet(d, d.ep, "feed", n)
                ELSE ContinueEndpoints(eps, d)
            ELSE IF index THEN
                IF n > 0 THEN BeginGet(d, d.ep, "child", n)
                ELSE ContinueEndpoints(eps, d)
            ELSE IF n > 0 THEN BreakEndpoints(d)
            ELSE ContinueEndpoints(eps, d)
        ELSE IF d.purpose = "feed" THEN
            IF fr.ok /\ fr.data = "xml" /\ n > 0 THEN EndLoop(d, pushed)
            ELSE more
        ELSE IF ~failed /\ n > 0
             THEN IF d.links > 1
                  THEN BeginGet([d EXCEPT !.found = TRUE], d.ep, d.purpose,
                                d.links - 1)
                  ELSE BreakEndpoints(d)
             ELSE more

\* what is parsed from the data of a get that did not fail: the number of
\* items (of links, for a directory or an index page) and, for a sitemap,
\* whether it is an index; for the feed of a directory the number of items
\* parsed and whether push_rss_item took one of them
ParseChoices(fr, type, purpose) ==
    IF ~(fr.ok /\ fr.data /= "none") THEN {<<0, FALSE, FALSE>>}
    ELSE IF purpose = "feed"
         THEN {<<0, FALSE, FALSE>>, <<1, FALSE, FALSE>>, <<1, FALSE, TRUE>>}
    ELSE IF purpose /= "endpoint" THEN {<<0, FALSE, FALSE>>, <<1, FALSE, TRUE>>}
    ELSE IF type = "FEED_DIRECTORY" THEN (0..MaxLinks) \X {FALSE} \X {FALSE}
    ELSE IF type = "SITEMAP_INDEX"
         THEN ((0..MaxLinks) \X {TRUE} \X {FALSE})
                  \cup {<<0, FALSE, FALSE>>, <<1, FALSE, TRUE>>}
    ELSE {<<0, FALSE, FALSE>>, <<1, FALSE, TRUE>>}

\* the server behind the URL of the current get
ServerOf(src, d) ==
    IF d.purpose = "endpoint" THEN src.endpoints[d.ep].server ELSE "any"

\* for attempt in range(1, RETRIES + 1): another iteration follows
AttemptsLeft(attempt) == attempt < RETRIES

EndpointTypes == {"RSS", "FEED_DIRECTORY", "HTML_LISTING", "SITEMAP_INDEX"}
Servers == {"always403", "any"}

\* an endpoint that is not enabled is never requested: one stands for all
DisabledEndpoint == [type |-> "RSS", enabled |-> FALSE, server |-> "any"]

FirstEndpoints ==
    {[type |-> t, enabled |-> TRUE, server |-> sv] :
        t \in EndpointTypes, sv \in Servers} \cup {DisabledEndpoint}

OtherEndpoints ==
    {[type |-> t, enabled |-> TRUE, server |-> sv] :
        t \in {"RSS", "SITEMAP_INDEX"}, sv \in Servers} \cup {DisabledEndpoint}

InitFetch ==
    /\ articles = <<>>
    /\ national_pass = <<>>
    /\ threat_pass = <<>>
    /\ kw_args = <<>>
    /\ passes = 0
    /\ scored = FALSE
    /\ llm = LlmIdle
    /\ \E hc \in BOOLEAN, first \in FirstEndpoints,
          rest \in [2..NumEndpoints -> OtherEndpoints] :
           source = [has_curl |-> hc,
                     endpoints |-> [p \in 1..NumEndpoints |->
                                       IF p = 1 THEN first ELSE rest[p]]]
    /\ disc = DiscIdle
    /\ worker = WorkerIdle
    /\ gui = GuiIdle
    /\ cascade = CascadeIdle
    /\ prompt = PromptIdle

\* fetch_discovery_items up to its first get
StartDiscovery ==
    /\ disc.phase = "idle"
    /\ disc' = ScanEndpoints(source.endpoints, disc, 1)
    /\ UNCHANGED <<pvars, source, worker, gui, cascade, prompt>>

\* one iteration of the loop of SmartHTTP.get and, when the get returns, the
\* code of fetch_discovery_items up to the next get
DiscoveryRequest ==
    /\ disc.phase = "get"
    /\ LET eps == source.endpoints
           expect == ExpectOf(eps[disc.ep].type, disc.purpose)
       IN  \E r \in ServerResponses(ServerOf(source, disc)) :
           \E c \in CurlChoices(source.has_curl, expect, r) :
           \E r2 \in InsecureChoices(disc.insecure_used, r) :
               LET res == SmartHttpAttempt(source.has_curl, expect,
                                           disc.insecure_used, r, c, r2)
                   d1 == [disc EXCEPT !.requests = @ + res.requests,
                                      !.insecure_used = res.insecure_used,
                                      !.last_err = res.last_err,
                                      !.last_get = NoGet]
                   fr == IF res.done
                         THEN [ok |-> res.ok, error |-> res.error,
                               data |-> res.data]
                         ELSE [ok |-> FALSE, error |-> res.last_err,
                               data |-> "none"]
               IN  IF ~res.done /\ AttemptsLeft(disc.attempt)
                   THEN disc' = [d1 EXCEPT !.attempt = @ + 1]
                   ELSE \E pc \in ParseChoices(fr, eps[disc.ep].type,
                                                 disc.purpose) :
                            disc' = AfterGet(eps, d1, fr, pc[1], pc[2], pc[3])
    /\ UNCHANGED <<pvars, source, worker, gui, cascade, prompt>>

\* extractor._fetch_html is called for a discovered article, whose URL is
\* served by a server of one of the two kinds
StartFetchHtml ==
    /\ disc.phase = "done"
    /\ disc.found
    /\ \E sv \in Servers :
           disc' = [disc EXCEPT !.phase = "html", !.attempt = 1,
                                !.requests = 0, !.insecure_used = FALSE,
                                !.last_err = NoErr, !.last_get = NoGet,
                                !.article_server = sv]
    /\ UNCHANGED <<pvars, source, worker, gui, cascade, prompt>>

\* one iteration of the loop of extractor._fetch_html
FetchHtmlRequest ==
    /\ disc.phase = "html"
    /\ \E r \in ServerResponses(disc.article_server) :
       \E c \in CurlChoices(source.has_curl, "any", r) :
       \E r2 \in InsecureChoices(disc.insecure_used, r) :
           LET res == FetchHtmlAttempt(source.has_curl, disc.insecure_used,
                                       r, c, r2)
               d1 == [disc EXCEPT !.requests = @ + res.requests,
                                  !.insecure_used = res.insecure_used,
                                  !.last_err = res.last_err]
           IN  IF ~res.done /\ AttemptsLeft(disc.attempt)
               THEN disc' = [d1 EXCEPT !.attempt = @ + 1]
               ELSE disc' = [d1 EXCEPT
                                !.phase = "extracted",
                                !.outcome =
                                    [ok |-> res.done /\ res.ok,
                                     error |-> IF res.done THEN res.error
                                               ELSE res.last_err,
                                     requests |-> d1.requests]]
    /\ UNCHANGED <<pvars, source, worker, gui, cascade, prompt>>

NextFetch ==
    \/ StartDiscovery
    \/ DiscoveryRequest
    \/ StartFetchHtml
    \/ FetchHtmlRequest

SpecFetch == InitFetch /\ [][NextFetch]_vars

----------------------------------------------------------------------------
(* fetcher.py: publish dates.  A date string is a record: its form, the    *)
(* day of March 2024 and the hour it shows, and the hours its zone is      *)
(* ahead of UTC.  The forms are                                            *)
(*   "iso"      2024-03-15T08:00:00+05:00   datetime.fromisoformat reads it *)
(*   "dateonly" 2024-03-15                  datetime.fromisoformat reads it *)
(*   "zone"     2024-03-15 01:00 PKT        fromisoformat raises            *)
(*   "baddate"  2024-02-30                  fromisoformat raises twice      *)
(* and "none" for None or the empty string.                                *)

IsoStr(day, hour, off) == [form |-> "iso", day |-> day, hour |-> hour, off |-> off]
DateOnlyStr(day) == [form |-> "dateonly", day |-> day, hour |-> 0, off |-> 0]
ZoneStr(day, hour, off) == [form |-> "zone", day |-> day, hour |-> hour, off |-> off]
BadDateStr == [form |-> "baddate", day |-> 0, hour |-> 0, off |-> 0]

\* datetime.fromisoformat(s.replace("Z", "+00:00")) does not raise
FromIsoformatOk(s) == s.form \in {"iso", "dateonly"}

\* d.astimezone(timezone.utc), a naive datetime being taken as UTC
AsUtc(s) ==
    LET t == s.day * 24 + s.hour - s.off
    IN  [day |-> t \div 24, hour |-> t % 24]

\* _parse_date_to_iso on a str
_parse_date_to_iso(s) ==
    IF s.form = "none" THEN NoStr
    ELSE IF FromIsoformatOk(s) THEN IsoStr(AsUtc(s).day, AsUtc(s).hour, 0)
    ELSE s

\* _normalize_any_date_to_iso, for a string that starts with a date
_normalize_any_date_to_iso(s) ==
    IF s.form = "none" THEN NoStr
    ELSE IF FromIsoformatOk(s) THEN IsoStr(AsUtc(s).day, AsUtc(s).hour, 0)
    ELSE s

\* _iso_to_date: the day, or None
_iso_to_date(s) ==
    IF s.form = "none" THEN None
    ELSE IF FromIsoformatOk(s) THEN AsUtc(s).day
    ELSE IF s.form = "zone" THEN s.day
    ELSE None

\* _in_date_range
_in_date_range(d, start, end) ==
    IF d = None THEN FALSE
    ELSE IF start /= None /\ d < start THEN FALSE
    ELSE IF end /= None /\ d > end THEN FALSE
    ELSE TRUE

\* the order of two date strings as Python compares str: the ten characters
\* of the date, then " " before "T", then the hour
StrKey(s) ==
    s.day * 1000
        + (CASE s.form = "iso" -> 200 [] s.form = "zone" -> 100 [] OTHER -> 0)
        + s.hour

\* sort_key of fetch_discovery_items: (1 if d else 0, d)
sort_key(a) ==
    IF a.published_at.form = "none" THEN 0
    ELSE 100000 + StrKey(a.published_at)

\* _article_id: the truncated SHA-256 of the three texts, taken to be
\* injective
_article_id(source_slug, url, published_at) ==
    <<source_slug, url, published_at>>

----------------------------------------------------------------------------
(* gui.py / fetcher.py: a fetch run.  WorkerFetch.run goes through the     *)
(* selected sources; for each it calls fetch_discovery_items, whose        *)
(* endpoint loop is one step here (SpecFetch has it request by request),   *)
(* then extracts the returned articles one by one.  A step ends where the  *)
(* next network call or the next test of the stop flag begins.             *)

NumSources == 2
MaxCands == 2
PrefetchMultiplier == 6

\* make_article: an Article of source src for the k-th candidate URL
make_article(src, k, published_at) ==
    [source |-> src, url |-> k, published_at |-> published_at,
     id |-> _article_id(src, k, published_at),
     content |-> FALSE, notes |-> <<>>]

\* target_n and max_candidates of fetch_discovery_items
TargetN(cfg) ==
    IF cfg.limit_items_per_source > 0 THEN cfg.limit_items_per_source ELSE 1

MaxCandidates(cfg) ==
    Max(TargetN(cfg) * Max(1, PrefetchMultiplier), TargetN(cfg))

want_date_filter(cfg) == cfg.mode \in {"on_date", "range"}

\* the date arguments the mode needs are missing
MissingDates(cfg) ==
    \/ cfg.mode = "on_date" /\ cfg.on_date = None
    \/ cfg.mode = "range" /\ cfg.from_date = None /\ cfg.to_date = None

\* the positions of the items without a published_at, from position p on
MissingFrom(items, p) ==
    {k \in p..Len(items) : items[k].published_at.form = "none"}

\* items.sort(key=sort_key, reverse=True): stable, equal keys keep their order
RECURSIVE SortNewestFirst(_, _)
SortNewestFirst(items, S) ==
    IF S = {} THEN <<>>
    ELSE LET best == CHOOSE i \in S :
                        \A j \in S :
                            \/ sort_key(items[i]) > sort_key(items[j])
                            \/ sort_key(items[i]) = sort_key(items[j]) /\ i <= j
         IN  <<items[best]>> \o SortNewestFirst(items, S \ {best})

\* the date filter of fetch_discovery_items, and the one of WorkerFetch.run
KeptByDate(cfg, a) ==
    IF cfg.mode = "on_date" THEN _iso_to_date(a.published_at) = cfg.on_date
    ELSE IF cfg.mode = "range"
    THEN _in_date_range(_iso_to_date(a.published_at), cfg.from_date, cfg.to_date)
    ELSE TRUE

FilterByDate(cfg, items) == SelectSeq(items, LAMBDA a : KeptByDate(cfg, a))

\* the end of fetch_discovery_items: filter, sort, truncate
ReturnedItems(cfg, items) ==
    LET filtered == FilterByDate(cfg, items)
        sorted == SortNewestFirst(filtered, 1..Len(filtered))
    IN  SubSeq(sorted, 1, Min(Len(sorted), TargetN(cfg)))

\* fetch_discovery_items after the date sniff: a missing date argument
\* raises ValueError, which WorkerFetch.run reports with finished_fail;
\* otherwise the call returns and the extraction loop begins
AfterSniff(w) ==
    IF MissingDates(w.cfg)
    THEN [w EXCEPT !.phase = "failed", !.signal = "finished_fail",
                   !.items = <<>>, !.idx = 0]
    ELSE [w EXCEPT !.phase = "extract", !.idx = 1,
                   !.items = ReturnedItems(w.cfg, w.items)]

\* the date sniff loop goes to the next item without a date, from position p
NextSniff(w, p) ==
    IF want_date_filter(w.cfg) /\ MissingFrom(w.items, p) /= {}
    THEN [w EXCEPT !.phase = "sniff",
                   !.idx = CHOOSE k \in MissingFrom(w.items, p) :
                               \A k2 \in MissingFrom(w.items, p) : k <= k2]
    ELSE AfterSniff(w)

\* the dates a feed gives its entries (none for the URLs of a listing or a
\* sitemap), and the dates found on an article page
FeedDates ==
    {NoStr, IsoStr(15, 8, 0), IsoStr(14, 23, 0), ZoneStr(15, 1, 5),
     DateOnlyStr(15)}

PageDates ==
    {NoStr, IsoStr(15, 1, 5), IsoStr(15, 8, 0), ZoneStr(15, 1, 5), BadDateStr}

\* the candidates of the first source: the first two vary, the others are
\* entries of the day before
Pools ==
    UNION {{[k \in 1..n |-> IF k = 1 THEN d1
                            ELSE IF k = 2 THEN d2 ELSE IsoStr(14, 23, 0)] :
               d1 \in FeedDates, d2 \in FeedDates} : n \in 0..MaxCands}

\* the candidates of the other sources
OtherPools == {<<IsoStr(15, 8, 0)>>}

PoolsOf(src) == IF src = 1 THEN Pools ELSE OtherPools

\* what extract_article_metadata_and_text returns: text or not, a date or
\* not, and a note that is never empty
ExtractResults ==
    {[text |-> FALSE, published_iso |-> NoStr, note |-> "fetch failed"],
     [text |-> TRUE, published_iso |-> NoStr, note |-> "ok"],
     [text |-> TRUE, published_iso |-> IsoStr(15, 8, 0), note |-> "ok"]}

LimitChoices == {1, 2}
DayChoices == {14, 15}

\* every RunConfig: the date fields are Optional
RunConfigs ==
    {[mode |-> "latest", limit_items_per_source |-> n, extract_full_text |-> x,
      on_date |-> None, from_date |-> None, to_date |-> None] :
        n \in LimitChoices, x \in BOOLEAN}
    \cup
    {[mode |-> "on_date", limit_items_per_source |-> n, extract_full_text |-> x,
      on_date |-> d, from_date |-> None, to_date |-> None] :
        n \in LimitChoices, x \in BOOLEAN, d \in {None, 15}}
    \cup
    {[mode |-> "range", limit_items_per_source |-> n, extract_full_text |-> x,
      on_date |-> None, from_date |-> f, to_date |-> t] :
        n \in LimitChoices, x \in BOOLEAN,
        f \in {None} \cup DayChoices, t \in {None, 15}}

\* _config_from_ui returns a RunConfig, not None
ConfigAccepted(cfg) ==
    /\ ~MissingDates(cfg)
    /\ ~(cfg.mode = "range" /\ cfg.from_date /= None /\ cfg.to_date /= None
         /\ cfg.from_date > cfg.to_date)

StartedWorker(cfg) ==
    [WorkerIdle EXCEPT !.phase = "loop", !.cfg = cfg, !.src = 1]

InitRun ==
    /\ articles = <<>>
    /\ national_pass = <<>>
    /\ threat_pass = <<>>
    /\ kw_args = <<>>
    /\ passes = 0
    /\ scored = FALSE
    /\ llm = LlmIdle
    /\ source = NoSource
    /\ disc = DiscIdle
    /\ worker = WorkerIdle
    /\ gui = GuiIdle
    /\ cascade = CascadeIdle
    /\ prompt = PromptIdle

\* MainWindow._on_fetch: the configuration read from the form is refused
\* with a warning, or a WorkerFetch is started with it
OnFetch(cfg) ==
    /\ worker.phase = "idle"
    /\ worker.signal = "none"
    /\ worker' = IF ConfigAccepted(cfg) THEN StartedWorker(cfg)
                 ELSE [worker EXCEPT !.signal = "warning"]
    /\ UNCHANGED <<qvars, gui, cascade, prompt>>

\* WorkerFetch(base_dir, sources, cfg).start() for a RunConfig that did not
\* come from the form
StartWorker(cfg) ==
    /\ worker.phase = "idle"
    /\ worker.signal = "none"
    /\ worker' = StartedWorker(cfg)
    /\ UNCHANGED <<qvars, gui, cascade, prompt>>

\* WorkerFetch.request_stop, called by _on_stop_fetch while the worker runs
RequestStop ==
    /\ worker.phase \in {"loop", "sniff", "extract"}
    /\ ~worker.stop
    /\ worker' = [worker EXCEPT !.stop = TRUE]
    /\ UNCHANGED <<qvars, gui, cascade, prompt>>

\* the head of the loop over the sources found the flag down: the call of
\* fetch_discovery_items up to its first date sniff, or to its end.  With
\* no enabled endpoint it returns at once, without a request.
Discover ==
    /\ worker.phase = "loop"
    /\ ~worker.stop
    /\ worker.src <= NumSources
    /\ \E enabled \in BOOLEAN, pool \in PoolsOf(worker.src) :
           IF ~enabled
           THEN worker' = [worker EXCEPT !.phase = "extract", !.idx = 1,
                                         !.items = <<>>, !.requests = 0]
           ELSE LET n == Min(Len(pool), MaxCandidates(worker.cfg))
                    items == [k \in 1..n |->
                                 make_article(worker.src, k,
                                              _parse_date_to_iso(pool[k]))]
                    w == [worker EXCEPT
                             !.items = items, !.requests = 1,
                             !.made = @ \cup {<<worker.src, k>> : k \in 1..n}]
                IN  worker' = NextSniff(w, 1)
    /\ UNCHANGED <<qvars, gui, cascade, prompt>>

\* one iteration of the date sniff loop: sniff_published_at_fast on the
\* page of an article without a date
SniffDate ==
    /\ worker.phase = "sniff"
    /\ \E page \in PageDates :
           LET k == worker.idx
               a == worker.items[k]
               pub_iso == _normalize_any_date_to_iso(page)
               a2 == IF pub_iso.form /= "none"
                     THEN [a EXCEPT !.published_at = pub_iso,
                                    !.id = _article_id(a.source, a.url, pub_iso)]
                     ELSE [a EXCEPT !.notes = Append(@, "date_sniff_failed")]
               w == [worker EXCEPT !.items[k] = a2, !.requests = @ + 1]
           IN  worker' = NextSniff(w, k + 1)
    /\ UNCHANGED <<qvars, gui, cascade, prompt>>

\* one iteration of the extraction loop of WorkerFetch.run
ExtractArticle ==
    /\ worker.phase = "extract"
    /\ worker.cfg.extract_full_text
    /\ ~worker.stop
    /\ worker.idx <= Len(worker.items)
    /\ \E r \in ExtractResults :
           LET a == worker.items[worker.idx]
               a1 == IF r.published_iso.form /= "none"
                        /\ a.published_at.form = "none"
                     THEN [a EXCEPT !.published_at =
                               _normalize_any_date_to_iso(r.published_iso)]
                     ELSE a
               a2 == [a1 EXCEPT !.content = @ \/ r.text,
                                !.notes = Append(@, r.note)]
           IN  worker' = [worker EXCEPT !.items[worker.idx] = a2,
                                        !.idx = @ + 1]
    /\ UNCHANGED <<qvars, gui, cascade, prompt>>

\* the extraction loop is over, or was left: the second date filter, and
\* all_articles.extend(items)
EndSource ==
    /\ worker.phase = "extract"
    /\ \/ ~worker.cfg.extract_full_text
       \/ worker.stop
       \/ worker.idx > Len(worker.items)
    /\ worker' = [worker EXCEPT
                     !.phase = "loop", !.src = @ + 1, !.idx = 0,
                     !.items = <<>>, !.requests = 0,
                     !.all_articles = @ \o FilterByDate(worker.cfg, worker.items)]
    /\ UNCHANGED <<qvars, gui, cascade, prompt>>

\* the loop over the sources is over, or was left: the articles are saved
\* and finished_ok is emitted
FinishFetch ==
    /\ worker.phase = "loop"
    /\ worker.stop \/ worker.src > NumSources
    /\ worker' = [worker EXCEPT !.phase = "done", !.saved = TRUE,
                                !.signal = "finished_ok"]
    /\ UNCHANGED <<qvars, gui, cascade, prompt>>

NextRun ==
    \/ \E cfg \in RunConfigs : OnFetch(cfg)
    \/ \E cfg \in RunConfigs : StartWorker(cfg)
    \/ RequestStop
    \/ Discover
    \/ SniffDate
    \/ ExtractArticle
    \/ EndSource
    \/ FinishFetch

SpecRun == InitRun /\ [][NextRun]_vars

----------------------------------------------------------------------------
(* Claims about Layer 3 and the risk index (SpecLayer3, SpecRisk) *)

\* the level of a threat score under the thresholds 75/50/25
C6_LevelOf(score) ==
    IF score >= 7500 THEN "CRITICAL"
    ELSE IF score >= 5000 THEN "HIGH"
    ELSE IF score >= 2500 THEN "MED"
    ELSE "LOW"

\* C6: once run_layer3_llm_scoring has returned, every article it processed
\* has a threat_score and a threat_level equal to the level of that score,
\* on the success, invocation-error and parse-error paths and whatever
\* threat_score and threat_level the article had before the run.
C6_LevelMatchesScore ==
    llm.phase = "done" =>
        \A k \in 1..Len(llm.chosen) :
            LET a == articles[llm.chosen[k]]
            IN  /\ a.threat_score /= None
                /\ a.threat_level = C6_LevelOf(a.threat_score)

\* the first object written between braces in a completion: the name of its
\* members, or "None" when the completion holds none
C9_FirstObject(text) ==
    LET at == {i \in 1..Len(text) :
                  /\ i + 2 <= Len(text)
                  /\ text[i] = "{"
                  /\ text[i + 1] \in JsonNames
                  /\ text[i + 2] = "}"}
    IN  IF at = {} THEN "None"
        ELSE text[(CHOOSE i \in at : \A j \in at : i <= j) + 1]

\* C9: an article whose completion is not itself a JSON object but holds
\* one gets the fields of the first object between braces, whatever text
\* comes before and after it: threat_score the clamped float, threat_level
\* the level of the score, threat_vector OTHER unless it is in the enum,
\* reasons the first 4 non-empty trimmed strings.
C9_FirstObjectParsed ==
    \A i \in Arts :
        LET out == llm.outs[i]
            name == C9_FirstObject(out.text)
            obj == JsonMembers(name)
            score == Max(0, Min(10000, _coerce_float(obj.threat_score, 0)))
            a == articles[i]
        IN  (out.kind = "text" /\ JsonLoadsDict(out.text) = "None"
             /\ name /= "None") =>
                /\ a.threat_score = score
                /\ a.threat_level = C6_LevelOf(score)
                /\ a.threat_vector = _clean_vector(VectorText(obj.threat_vector))
                /\ a.reasons = ReasonsOf(obj.reasons)

\* the completion of the example: text, then the object with score 82,
\* vector "bomb" and five reasons, then text without braces
C9_ExampleParsed ==
    \A i \in Arts :
        llm.outs[i] = [kind |-> "text",
                       text |-> <<"junk", "{", "P82", "}", "junk">>] =>
            /\ articles[i].threat_score = 8200
            /\ articles[i].threat_level = "CRITICAL"
            /\ articles[i].threat_vector = "OTHER"
            /\ articles[i].reasons = << <<"a">>, <<"b">>, <<"A">>, <<"B">> >>

\* the documented default of an absent input
C7_OrDefault(x, d) == IF x = None THEN d ELSE x

\* C7: compute_risk_index sets risk_index to clamp(0.45*threat_score +
\* 0.35*relevance_score + 0.10*urgency_score + 0.10*evidence_numeric, 0, 100)
\* with urgency 20 and evidence 25 in place of exactly the absent inputs
\* (0 for an absent threat or relevance score); the result is in [0,100].
C7_RiskIndexFormula ==
    \A i \in Arts :
        LET a == articles[i]
            sum == 45 * C7_OrDefault(a.threat_score, 0)
                   + 35 * C7_OrDefault(a.relevance_score, 0)
                   + 10 * C7_OrDefault(a.urgency_score, 2000)
                   + 10 * C7_OrDefault(a.evidence_numeric, 2500)
        IN  a.risk_index /= None =>
                /\ a.risk_index = Max(0, Min(1000000, sum))
                /\ a.risk_index \in 0..1000000

\* the model call raised, or no JSON object could be taken from its text
C15_Failed(out) ==
    \/ out.kind = "error"
    \/ out.kind = "text" /\ _extract_json_object(out.text) \in {"None", "{}"}

\* the step that scores article i with a failed call
C15_FailureStep(i) ==
    LET a == articles[i]
        b == articles'[i]
        n == Len(a.extraction_notes)
    IN  /\ Len(b.extraction_notes) = n + 1
        /\ SubSeq(b.extraction_notes, 1, n) = a.extraction_notes
        /\ b.extraction_notes[n + 1] \in {"LLM_ERROR", "LLM_PARSE_ERROR"}
        /\ b.threat_score /= None
        /\ b.threat_level /= "None"
        /\ b.threat_vector /= "None"
        /\ b.one_liner_threat /= "None"
        /\ a.threat_score = None => b.threat_score = 0
        /\ a.threat_level = "None" =>
               b.threat_level = _threat_level_from_score(b.threat_score)
        /\ a.threat_vector = "None" => b.threat_vector = "OTHER"
        /\ a.one_liner_threat = "None" => b.one_liner_threat = ""
        /\ a.reasons = <<>> => b.reasons = <<>>
        /\ llm'.phase = "scoring"
        /\ llm'.pos = llm.pos + 1

C16_LoadedOnce ==
    /\ llm.phase \in {"scoring", "done"} => llm.loads = 1
    /\ llm.phase = "failed" => \A i \in Arts : llm.outs[i] = NoOutcome

----------------------------------------------------------------------------
(* Claims about fetching (SpecFetch) *)

\* the enabled endpoints after position p
C10_LaterEnabled(p) ==
    {q \in (p + 1)..Len(source.endpoints) : source.endpoints[q].enabled}

\* C10: with no curl_cffi transport, the get of an endpoint whose URL
\* answers 403 to every request makes exactly 3 requests and returns a
\* failed result with a non-empty error, and discovery has gone on to the
\* next enabled endpoint of the source if there is one; the page fetch of
\* the extractor behaves the same way on such a URL.
C10_Blocked403Exhausts ==
    ~source.has_curl =>
        /\ LET g == disc.last_get
           IN  (g.ep > 0 /\ source.endpoints[g.ep].server = "always403") =>
                   /\ g.requests = 3
                   /\ ~g.ok
                   /\ g.error \notin {NoErr, EmptyErr}
                   /\ \A q \in C10_LaterEnabled(g.ep) :
                          (\A q2 \in C10_LaterEnabled(g.ep) : q <= q2) =>
                              /\ disc.phase = "get"
                              /\ disc.ep = q
                              /\ disc.endpoint_used = q
        /\ (disc.phase = "get" /\ disc.purpose = "endpoint"
            /\ source.endpoints[disc.ep].server = "always403") =>
               disc.requests < 3
        /\ (disc.phase = "extracted" /\ disc.article_server = "always403") =>
               /\ disc.outcome.requests = 3
               /\ ~disc.outcome.ok
               /\ disc.outcome.error \notin {NoErr, EmptyErr}

\* the first endpoint has just answered 403 for the third time and discovery
\* is at the second endpoint, about to request it
C10_Witness ==
    /\ ~source.has_curl
    /\ source.endpoints[1].server = "always403"
    /\ disc.last_get = [ep |-> 1, ok |-> FALSE, error |-> <<"HTTP", "403">>,
                        requests |-> 3]
    /\ disc.phase = "get"
    /\ disc.ep = 2
    /\ disc.attempt = 1
    /\ disc.requests = 0

\* the page fetch of a discovered article was refused three times
C10_WitnessPage ==
    /\ ~source.has_curl
    /\ disc.phase = "extracted"
    /\ disc.article_server = "always403"
    /\ disc.outcome = [ok |-> FALSE, error |-> <<"RuntimeError: HTTP", "403">>,
                       requests |-> 3]

\* C14: whatever the transport answers, SmartHTTP.get and _fetch_html
\* return, and a returned outcome with ok = false has an error that is a
\* non-empty string
C14_FailureHasError ==
    /\ (disc.last_get.ep > 0 /\ ~disc.last_get.ok) =>
           disc.last_get.error \notin {NoErr, EmptyErr}
    /\ (disc.phase = "extracted" /\ ~disc.outcome.ok) =>
           disc.outcome.error \notin {NoErr, EmptyErr}

\* the enabled endpoints of the source
C17_Enabled == {p \in 1..Len(source.endpoints) : source.endpoints[p].enabled}

\* C17: discovery tries the enabled endpoints in declared order and stops at
\* the first one that yields a candidate: an endpoint that is not enabled is
\* never requested, an endpoint is requested only while no earlier one has
\* yielded a candidate, and discovery ends without candidates only after the
\* last enabled endpoint has been tried
C17_FirstYieldingEndpoint ==
    /\ disc.phase = "get" => disc.ep \in C17_Enabled
    /\ (disc.phase = "get" /\ disc.purpose = "endpoint") =>
           /\ ~disc.found
           /\ disc.endpoint_used = disc.ep
    /\ (disc.phase = "done" /\ disc.found) => disc.endpoint_used \in C17_Enabled
    /\ (disc.phase = "done" /\ ~disc.found) =>
           \A p \in C17_Enabled : p <= disc.endpoint_used

----------------------------------------------------------------------------
(* Claims about a fetch run (SpecRun) *)

\* the UTC calendar date a date string denotes, None when there is no
\* string or it denotes no date
C11_PublishDateUtc(s) ==
    IF s.form \in {"iso", "dateonly", "zone"} THEN AsUtc(s).day ELSE None

\* C11: in ON_DATE mode every article the fetch worker stores has a
\* published_at whose UTC calendar date is on_date, in DATE_RANGE mode one
\* whose UTC calendar date lies within the inclusive bounds given; an
\* article whose date is missing or unparseable is not stored in these modes
C11_KeptMatchesDate ==
    \A k \in 1..Len(worker.all_articles) :
        LET d == C11_PublishDateUtc(worker.all_articles[k].published_at)
            cfg == worker.cfg
        IN  /\ cfg.mode = "on_date" => (d /= None /\ d = cfg.on_date)
            /\ cfg.mode = "range" =>
                   /\ d /= None
                   /\ cfg.from_date /= None => d >= cfg.from_date
                   /\ cfg.to_date /= None => d <= cfg.to_date

\* C12: a discovery call in ON_DATE mode without on_date, or in DATE_RANGE
\* mode with neither bound, issues no network request (no endpoint fetch, no
\* date sniff) and does not return articles: it is rejected first
C12_RejectedBeforeNetwork ==
    MissingDates(worker.cfg) =>
        /\ worker.requests = 0
        /\ worker.phase \notin {"sniff", "extract", "done"}

\* C13: at every point of a run the id of every Article, of the source in
\* hand and of the ones gathered so far, is the hash of its source slug, its
\* URL and its published_at
C13_IdMatchesTriple ==
    \A a \in SeqToSet(worker.items) \cup SeqToSet(worker.all_articles) :
        a.id = _article_id(a.source, a.url, a.published_at)

\* the instant a date string denotes, in hours, None when it denotes none
C18_Instant(s) ==
    IF s.form \in {"iso", "dateonly", "zone"}
    THEN s.day * 24 + s.hour - s.off ELSE None

\* C18: the list fetch_discovery_items returns has at most desired_count
\* articles, drawn from at most max(desired_count * prefetch_multiplier,
\* desired_count) candidates, and in the modes LATEST_N, ON_DATE and
\* DATE_RANGE it is ordered by publish date, newest first, the undated
\* articles last
C18_NewestFirst ==
    (worker.phase = "extract" /\ worker.idx = 1) =>
        LET items == worker.items
        IN  /\ Len(items) <= TargetN(worker.cfg)
            /\ Cardinality({m \in worker.made : m[1] = worker.src})
                   <= Max(TargetN(worker.cfg) * PrefetchMultiplier,
                          TargetN(worker.cfg))
            /\ \A i \in 1..Len(items), j \in 1..Len(items) :
                   i < j =>
                       LET ti == C18_Instant(items[i].published_at)
                           tj == C18_Instant(items[j].published_at)
                       IN  /\ ~(items[i].published_at.form = "none"
                                /\ items[j].published_at.form /= "none")
                           /\ (ti /= None /\ tj /= None) => ti >= tj

\* C19: once request_stop has been called the worker starts no further
\* source and no further per-article fetch (date sniff or extraction), and a
\* worker that terminates has saved and reported with finished_ok the
\* articles gathered so far
C19_StopHonoured ==
    /\ [][worker.stop => ~(Discover \/ SniffDate \/ ExtractArticle)]_vars
    /\ [](worker.phase = "done" =>
             worker.saved /\ worker.signal = "finished_ok")

\* C20: when a run has ended, every article that discovery constructed is in
\* the saved output, and with full-text extraction enabled every such article
\* has enriched content or at least one extraction note
C20_NothingDropped ==
    worker.phase = "done" =>
        /\ \A m \in worker.made :
               \E i \in 1..Len(worker.all_articles) :
                   /\ worker.all_articles[i].source = m[1]
                   /\ worker.all_articles[i].url = m[2]
        /\ worker.cfg.extract_full_text =>
               \A i \in 1..Len(worker.all_articles) :
                   \/ worker.all_articles[i].content
                   \/ worker.all_articles[i].notes /= <<>>

----------------------------------------------------------------------------
(* gui.py: the main window, its two workers and the run storage.           *)
(* An article is reduced to what the storage and the buttons depend on:    *)
(* its key (url), its (country, source slug) group, the one word of its    *)
(* text, the shortlisted flag and whether Layer 2 and Layer 3 fields are   *)
(* set.  A run directory is a number, 0 is current_run_dir = None.  A      *)
(* stage directory maps each group to the list stored in its json file,    *)
(* <<>> when the file does not exist.                                      *)

MaxRuns == 1

SourceFiles == {"A", "B"}

NoFiles == [s \in SourceFiles |-> <<>>]

GuiArticle(key, src, word) ==
    [key |-> key, src |-> src, word |-> word, shortlisted |-> "None",
     l2 |-> FALSE, l3 |-> FALSE]

\* the articles of a fetch run over two sources: two articles of the first
\* and one of the second
FetchedArticles ==
    <<GuiArticle(1, "A", "x"), GuiArticle(2, "A", "y"), GuiArticle(3, "B", "x")>>

\* the articles a fetch worker of this window returns: one source selected,
\* one article
WorkerArticles == <<GuiArticle(1, "A", "x")>>

\* the national and the threat keyword editor
EditorChoices == {{}, {"x"}, {"x", "y"}}

\* gui._save_articles_grouped: one file per group that has articles
_save_articles_grouped(files, arts) ==
    [s \in SourceFiles |->
        LET items == SelectSeq(arts, LAMBDA a : a.src = s)
        IN  IF items = <<>> THEN files[s] ELSE items]

\* gui.load_articles_from_run: every json file of the stage directory
load_articles_from_run(files) == files["A"] \o files["B"]

_is_shortlisted(a) == a.shortlisted = "True"

\* shortlist_articles_two_layer on the reduced articles
ShortlistPass(arts, nat, thr) ==
    [i \in DOMAIN arts |->
        [arts[i] EXCEPT !.shortlisted =
            PyBool(arts[i].word \in nat /\ arts[i].word \in thr)]]

\* the worker's articles are the first objects of the cache while the cache
\* still holds the objects the worker was given
RelinkLlm(g, cache) ==
    [g EXCEPT !.articles_cache = cache,
              !.llm_articles = IF g.llm_linked
                               THEN SubSeq(cache, 1, Len(g.llm_articles))
                               ELSE @]

\* _save_articles_grouped(self.current_run_dir, subfolder, articles)
SaveStage(disk, run, subfolder, arts) ==
    [disk EXCEPT ![run][subfolder] = _save_articles_grouped(@, arts)]

\* the buttons as _on_fetch leaves them
FetchStartedLeftEnabled(g) == g

FetchStarted(g) ==
    [g EXCEPT !.btn_fetch = FALSE, !.btn_stop = TRUE, !.btn_shortlist = FALSE]

FetchEnded(g) ==
    [g EXCEPT !.btn_fetch = TRUE, !.btn_stop = FALSE, !.btn_shortlist = TRUE,
              !.fetch_signal = "none", !.fetch_articles = <<>>]

LlmStarted(g) ==
    [g EXCEPT !.btn_run_llm = FALSE, !.btn_compute_layer2 = FALSE]

LlmEnded(g) ==
    [g EXCEPT !.btn_run_llm = TRUE, !.btn_compute_layer2 = TRUE,
              !.llm_signal = "none"]

InitGui ==
    /\ articles = <<>>
    /\ national_pass = <<>>
    /\ threat_pass = <<>>
    /\ kw_args = <<>>
    /\ passes = 0
    /\ scored = FALSE
    /\ llm = LlmIdle
    /\ source = NoSource
    /\ disc = DiscIdle
    /\ worker = WorkerIdle
    /\ gui = GuiIdle
    /\ cascade = CascadeIdle
    /\ prompt = PromptIdle

\* MainWindow._on_fetch with sources selected and a valid form
OnFetchClicked ==
    /\ gui.btn_fetch
    /\ gui' = [FetchStarted(gui) EXCEPT !.fetch_running = @ + 1,
                                        !.fetch_stop = FALSE]
    /\ UNCHANGED <<wvars, cascade, prompt>>

\* MainWindow._on_stop_fetch
OnStopFetch ==
    /\ gui.btn_stop
    /\ gui.fetch_running > 0
    /\ ~gui.fetch_stop
    /\ gui' = [gui EXCEPT !.fetch_stop = TRUE]
    /\ UNCHANGED <<wvars, cascade, prompt>>

\* WorkerFetch.run: the run directory is created first; the articles are
\* saved to fetched/ and finished_ok is emitted, or an exception escapes and
\* finished_fail is emitted.  Once MaxRuns runs exist a worker stays at work.
WorkerFetchRun(ok) ==
    /\ gui.fetch_running > 0
    /\ gui.fetch_signal = "none"
    /\ gui.runs < MaxRuns
    /\ LET arts == WorkerArticles
       IN  gui' = [gui EXCEPT
                      !.fetch_running = @ - 1,
                      !.runs = @ + 1,
                      !.disk = Append(@,
                          [fetched |-> IF ok
                                       THEN _save_articles_grouped(NoFiles, arts)
                                       ELSE NoFiles,
                           shortlisted |-> NoFiles]),
                      !.fetch_articles = IF ok THEN arts ELSE <<>>,
                      !.fetch_signal = IF ok THEN "ok" ELSE "fail"]
    /\ UNCHANGED <<wvars, cascade, prompt>>

\* MainWindow._on_worker_fetch_ok
OnWorkerFetchOk ==
    /\ gui.fetch_signal = "ok"
    /\ gui' = [FetchEnded(gui) EXCEPT !.current_run_dir = gui.runs,
                                      !.current_view_subfolder = "fetched",
                                      !.articles_cache = gui.fetch_articles,
                                      !.llm_linked = FALSE]
    /\ UNCHANGED <<wvars, cascade, prompt>>

\* MainWindow._on_worker_fail
OnWorkerFail ==
    /\ gui.fetch_signal = "fail"
    /\ gui' = FetchEnded(gui)
    /\ UNCHANGED <<wvars, cascade, prompt>>

\* MainWindow._on_load_selected_run(subfolder) with a run selected
OnLoadSelectedRun(run, subfolder) ==
    /\ run \in 1..gui.runs
    /\ gui' = [gui EXCEPT
                  !.current_run_dir = run,
                  !.current_view_subfolder = subfolder,
                  !.articles_cache = load_articles_from_run(gui.disk[run][subfolder]),
                  !.llm_linked = FALSE]
    /\ UNCHANGED <<wvars, cascade, prompt>>

\* MainWindow._on_load_legacy: data/news is written only by a shortlist pass
\* over legacy articles, so it is empty
OnLoadLegacy ==
    /\ gui' = [gui EXCEPT !.current_run_dir = 0,
                          !.current_view_subfolder = "legacy",
                          !.articles_cache = <<>>,
                          !.llm_linked = FALSE]
    /\ UNCHANGED <<wvars, cascade, prompt>>

\* MainWindow._on_run_shortlisting (the button of the Run tab or the one of
\* the Keywords tab, which is never disabled)
OnRunShortlisting(nat, thr) ==
    /\ gui.articles_cache /= <<>>
    /\ LET cache == ShortlistPass(gui.articles_cache, nat, thr)
           g == RelinkLlm(gui, cache)
           run == gui.current_run_dir
       IN  gui' = IF run /= 0
                  THEN [g EXCEPT !.disk =
                           SaveStage(SaveStage(@, run, "fetched", cache),
                                     run, "shortlisted",
                                     SelectSeq(cache, _is_shortlisted))]
                  ELSE g
    /\ UNCHANGED <<wvars, cascade, prompt>>

\* MainWindow._on_compute_layer2
OnComputeLayer2 ==
    /\ gui.btn_compute_layer2
    /\ gui.articles_cache /= <<>>
    /\ LET cache == [i \in DOMAIN gui.articles_cache |->
                        [gui.articles_cache[i] EXCEPT !.l2 = TRUE]]
           g == RelinkLlm(gui, cache)
           run == gui.current_run_dir
       IN  gui' = IF run /= 0
                  THEN [g EXCEPT !.disk =
                           SaveStage(@, run, gui.current_view_subfolder, cache)]
                  ELSE g
    /\ UNCHANGED <<wvars, cascade, prompt>>

\* MainWindow._on_run_llm with a model file: select_articles_for_llm fills in
\* Layer 2 and returns the first n objects of its order
OnRunLlm(n) ==
    /\ gui.btn_run_llm
    /\ gui.articles_cache /= <<>>
    /\ n \in 1..Len(gui.articles_cache)
    /\ LET cache == [i \in DOMAIN gui.articles_cache |->
                        [gui.articles_cache[i] EXCEPT !.l2 = TRUE]]
       IN  gui' = [LlmStarted(gui) EXCEPT
                      !.articles_cache = cache,
                      !.llm_articles = SubSeq(cache, 1, n),
                      !.llm_linked = TRUE,
                      !.llm_running = @ + 1,
                      !.llm_run = gui.current_run_dir,
                      !.llm_stage = gui.current_view_subfolder]
    /\ UNCHANGED <<wvars, cascade, prompt>>

\* WorkerLLM.run: the threat fields are written on the worker's articles
WorkerLlmRun(ok) ==
    /\ gui.llm_running > 0
    /\ gui.llm_signal = "none"
    /\ LET scored3 == [i \in DOMAIN gui.llm_articles |->
                          [gui.llm_articles[i] EXCEPT !.l3 = TRUE]]
           cache == IF gui.llm_linked
                    THEN scored3 \o SubSeq(gui.articles_cache,
                                           Len(scored3) + 1,
                                           Len(gui.articles_cache))
                    ELSE gui.articles_cache
       IN  gui' = IF ok
                  THEN [gui EXCEPT !.llm_articles = scored3,
                                   !.articles_cache = cache,
                                   !.llm_running = @ - 1,
                                   !.llm_signal = "ok"]
                  ELSE [gui EXCEPT !.llm_running = @ - 1,
                                   !.llm_signal = "fail"]
    /\ UNCHANGED <<wvars, cascade, prompt>>

\* MainWindow._on_llm_done
OnLlmDone ==
    /\ gui.llm_signal = "ok"
    /\ LET run == gui.current_run_dir
       IN  gui' = IF run /= 0
                  THEN [LlmEnded(gui) EXCEPT !.disk =
                           SaveStage(@, run, gui.current_view_subfolder,
                                     gui.articles_cache)]
                  ELSE LlmEnded(gui)
    /\ UNCHANGED <<wvars, cascade, prompt>>

\* MainWindow._on_llm_fail
OnLlmFail ==
    /\ gui.llm_signal = "fail"
    /\ gui' = LlmEnded(gui)
    /\ UNCHANGED <<wvars, cascade, prompt>>

NextGui ==
    \/ OnFetchClicked
    \/ OnStopFetch
    \/ \E ok \in BOOLEAN : WorkerFetchRun(ok)
    \/ OnWorkerFetchOk
    \/ OnWorkerFail
    \/ \E run \in 1..MaxRuns, subfolder \in {"fetched", "shortlisted"} :
           OnLoadSelectedRun(run, subfolder)
    \/ OnLoadLegacy
    \/ OnRunShortlisting({"x"}, {"x"})
    \/ OnComputeLayer2
    \/ \E n \in 1..Len(WorkerArticles) : OnRunLlm(n)
    \/ \E ok \in BOOLEAN : WorkerLlmRun(ok)
    \/ OnLlmDone
    \/ OnLlmFail

SpecGui == InitGui /\ [][NextGui]_vars

\* the fetched articles of the run an earlier session left
EarlierFetches ==
    {FetchedArticles,
     <<GuiArticle(1, "A", "y"), GuiArticle(2, "B", "x"), GuiArticle(3, "B", "y")>>}

\* the window started on a data directory that holds one run, fetched by an
\* earlier session over two sources
InitStore ==
    /\ articles = <<>>
    /\ national_pass = <<>>
    /\ threat_pass = <<>>
    /\ kw_args = <<>>
    /\ passes = 0
    /\ scored = FALSE
    /\ llm = LlmIdle
    /\ source = NoSource
    /\ disc = DiscIdle
    /\ worker = WorkerIdle
    /\ \E arts \in EarlierFetches :
           gui = [GuiIdle EXCEPT
                     !.runs = 1,
                     !.disk = <<[fetched |-> _save_articles_grouped(NoFiles, arts),
                                 shortlisted |-> NoFiles]>>]
    /\ cascade = CascadeIdle
    /\ prompt = PromptIdle

\* the load, shortlist and Layer 2 buttons
NextStore ==
    \/ \E subfolder \in {"fetched", "shortlisted"} : OnLoadSelectedRun(1, subfolder)
    \/ \E nat \in EditorChoices, thr \in EditorChoices : OnRunShortlisting(nat, thr)
    \/ OnComputeLayer2

SpecStore == InitStore /\ [][NextStore]_vars

----------------------------------------------------------------------------
(* Claims about the run storage (SpecStore) *)

\* the articles of a list, whatever their order
C21_Set(arts) == {arts[i] : i \in DOMAIN arts}

\* C21: after every save to a stage of a run, reloading that stage returns
\* exactly the articles of that save: a shortlist pass saves the cache to
\* fetched and its shortlisted articles to shortlisted, Layer 2 saves the
\* cache to the stage in view
C21_ReloadIsLastSave ==
    [][LET run == gui.current_run_dir
           view == gui.current_view_subfolder
           cache == gui'.articles_cache
       IN  /\ (run /= 0
               /\ \E nat \in EditorChoices, thr \in EditorChoices :
                      OnRunShortlisting(nat, thr))
                  => /\ C21_Set(load_articles_from_run(gui'.disk[run].fetched))
                            = C21_Set(cache)
                     /\ C21_Set(load_articles_from_run(gui'.disk[run].shortlisted))
                            = C21_Set(SelectSeq(cache, _is_shortlisted))
           /\ (run /= 0 /\ OnComputeLayer2)
                  => C21_Set(load_articles_from_run(gui'.disk[run][view]))
                         = C21_Set(cache)]_vars

----------------------------------------------------------------------------
(* models.py: the persisted shape of an Article, and a pipeline in which   *)
(* the articles are saved and loaded again between the steps               *)

\* Article.to_dict: one key per field
to_dict(a) ==
    [title |-> a.title, summary |-> a.summary, content_text |-> a.content_text,
     url |-> a.url, author |-> a.author, country |-> a.country,
     published_at |-> a.published_at, signals |-> a.signals,
     extraction_notes |-> a.extraction_notes,
     keywords_matched |-> a.keywords_matched,
     keywords_national_matched |-> a.keywords_national_matched,
     keywords_threat_matched |-> a.keywords_threat_matched,
     national_relevant |-> a.national_relevant,
     threat_relevant |-> a.threat_relevant,
     shortlisted |-> a.shortlisted,
     kw_national_hits |-> a.kw_national_hits,
     kw_threat_hits |-> a.kw_threat_hits,
     relevance_score |-> a.relevance_score,
     evidence_strength |-> a.evidence_strength,
     evidence_numeric |-> a.evidence_numeric,
     urgency_score |-> a.urgency_score,
     keyword_intensity |-> a.keyword_intensity,
     prepriority_score |-> a.prepriority_score,
     prepriority_bucket |-> a.prepriority_bucket,
     threat_score |-> a.threat_score,
     threat_level |-> a.threat_level,
     threat_vector |-> a.threat_vector,
     one_liner_threat |-> a.one_liner_threat,
     reasons |-> a.reasons,
     risk_index |-> a.risk_index,
     raw |-> a.raw]

\* Article.from_dict: keywords_matched is carried into the national matches
\* when these are empty, and the explicit hit lists fall back to raw
from_dict(d) ==
    LET km == d.keywords_matched
        kn == IF km /= <<>> /\ d.keywords_national_matched = <<>>
              THEN DictFromKeys(km)
              ELSE d.keywords_national_matched
        kw_nat == IF d.kw_national_hits /= <<>> THEN d.kw_national_hits
                  ELSE d.raw.kw_national_hits
        kw_thr == IF d.kw_threat_hits /= <<>> THEN d.kw_threat_hits
                  ELSE d.raw.kw_threat_hits
    IN  [d EXCEPT !.keywords_national_matched = kn,
                  !.kw_national_hits = kw_nat,
                  !.kw_threat_hits = kw_thr]

\* the cached articles are written to the run and loaded again
\* (_save_articles_grouped, then MainWindow._on_load_selected_run)
ReloadArticles ==
    /\ articles' = [i \in DOMAIN articles |-> from_dict(to_dict(articles[i]))]
    /\ UNCHANGED <<national_pass, threat_pass, kw_args, passes, scored, llm,
                   source, disc, worker, gui, cascade, prompt>>

NextPersist ==
    \/ \E nat \in KeywordLists, thr \in KeywordLists : RunShortlisting(nat, thr)
    \/ ReloadArticles
    \/ ComputeLayer2

SpecPersist == InitShortlist /\ [][NextPersist]_vars

----------------------------------------------------------------------------
(* Claims about persistence (SpecPersist) *)

\* C22: for every article the pipeline produces, Article.from_dict of its
\* to_dict has every field equal to the field of the article
C22_RoundTrip ==
    \A i \in DOMAIN articles : from_dict(to_dict(articles[i])) = articles[i]

\* the article with the hit lists that the most recent pass found for it
C30_LastPassHits(a) ==
    LET res == shortlist_articles_two_layer(<<a>>, kw_args[1], kw_args[2])
        b == res.articles_all[1]
    IN  [a EXCEPT !.kw_national_hits = b.kw_national_hits,
                  !.kw_threat_hits = b.kw_threat_hits,
                  !.keywords_national_matched = b.kw_national_hits,
                  !.keywords_threat_matched = b.kw_threat_hits]

\* C30: the relevance, urgency and keyword intensity that Layer 2 writes are
\* those computed from the national and threat hits of the most recent
\* shortlist pass, also when the articles were saved and loaded in between
C30_Layer2UsesLastPass ==
    [][(passes > 0 /\ ComputeLayer2) =>
          \A i \in DOMAIN articles :
              LET fresh == Layer2Scores(C30_LastPassHits(articles[i]))
              IN  /\ articles'[i].relevance_score = fresh.relevance_score
                  /\ articles'[i].urgency_score = fresh.urgency_score
                  /\ articles'[i].keyword_intensity = fresh.keyword_intensity]_vars

\* C28: whatever is loaded, shortlisted or scored by Layer 2 on a run, the
\* fetched stage of the run still returns every article that was fetched
C28_FetchedKept ==
    \A run \in 1..gui.runs :
        {a.key : a \in C21_Set(load_articles_from_run(gui.disk[run].fetched))}
            = 1..Len(FetchedArticles)

----------------------------------------------------------------------------
(* Claims about the main window and its workers (SpecGui) *)

\* C23: whatever the user clicks and whenever the workers complete, at most
\* one fetch worker and at most one LLM worker is running
C23_OneWorkerOfEachKind ==
    /\ gui.fetch_running <= 1
    /\ gui.llm_running <= 1

\* a fetch worker and an LLM worker at work, both start buttons disabled
C23_Witness ==
    /\ gui.fetch_running = 1
    /\ gui.llm_running = 1
    /\ ~gui.btn_fetch
    /\ ~gui.btn_run_llm

\* C29: when _on_llm_done runs, the Layer 3 results of the articles the
\* worker scored are in the stage of the run these articles came from,
\* whatever the user did while the worker was scoring
C29_ResultsSaved ==
    [][(OnLlmDone /\ gui.llm_run /= 0) =>
          \A i \in DOMAIN gui.llm_articles :
              \E b \in C21_Set(load_articles_from_run(
                                   gui'.disk[gui.llm_run][gui.llm_stage])) :
                  /\ b.key = gui.llm_articles[i].key
                  /\ b.l3]_vars

----------------------------------------------------------------------------
(* Selection for Layer 3 on its own: MainWindow._on_run_llm on a cache     *)
(* that holds shortlisted and other articles, scored by Layer 2 or not     *)

\* articles after a shortlist pass: shortlisted with strong or weak signals,
\* national hit only, no hit at all; each scored by Layer 2 or not yet
SelectInputs ==
    LET today == IsoDate(TodayUtc)
        passed == {ShortlistedInput(3, 2,
                       [NoSignals EXCEPT !.location = TRUE, !.named_entity = TRUE],
                       "India", today),
                   ShortlistedInput(11, 11, AllSignals, "Pakistan", today),
                   ShortlistedInput(1, 0, NoSignals, "India", today),
                   ShortlistedInput(0, 0, AllSignals, "Pakistan", today),
                   ShortlistedInput(0, 0, NoSignals, "India", NoDate)}
    IN  passed \cup {Layer2Scores(a) : a \in passed}

InitSelect ==
    /\ articles \in [Arts -> SelectInputs]
    /\ national_pass = SelectPositions(NumArticles, NationalPassOf(articles))
    /\ threat_pass =
           SelectPositions(NumArticles,
                           {i \in Arts : articles[i].shortlisted = "True"})
    /\ kw_args = <<>>
    /\ passes = 1
    /\ scored = FALSE
    /\ llm = LlmIdle
    /\ source = NoSource
    /\ disc = DiscIdle
    /\ worker = WorkerIdle
    /\ gui = GuiIdle
    /\ cascade = CascadeIdle
    /\ prompt = PromptIdle

NextSelect ==
    \E mode \in LlmModes, top_n \in TopNChoices, threshold \in ThresholdChoices :
        RunLLM(mode, top_n, threshold)

SpecSelect == InitSelect /\ [][NextSelect]_vars

----------------------------------------------------------------------------
(* Claims about the selection for Layer 3 (SpecSelect) *)

\* the chosen positions are in descending order of prepriority_score
C24_BestFirst(arts, chosen) ==
    \A j, k \in DOMAIN chosen :
        j < k => arts[chosen[j]].prepriority_score
                     >= arts[chosen[k]].prepriority_score

\* what the selection mode of the UI asks for
C24_Criterion(arts, chosen, mode, top_n, threshold) ==
    LET picked == {chosen[k] : k \in DOMAIN chosen}
    IN  CASE mode = "top_n" ->
                 /\ Len(chosen) = Min(top_n, Len(arts))
                 /\ \A i \in picked, j \in DOMAIN arts \ picked :
                        arts[i].prepriority_score >= arts[j].prepriority_score
          [] mode = "threshold" ->
                 picked = {i \in DOMAIN arts :
                              arts[i].prepriority_score >= 100 * threshold}
          [] OTHER ->
                 \A i \in picked : arts[i].shortlisted = "True"

\* C24: the selection passes to the LLM the articles the chosen mode asks
\* for (top N by prepriority_score, all at or above the threshold, or
\* shortlisted articles only), best first, and leaves the caller's list in
\* its order
C24_SelectionMeetsMode ==
    [][\A mode \in LlmModes, top_n \in TopNChoices, threshold \in ThresholdChoices :
          RunLLM(mode, top_n, threshold) =>
              LET sel == select_articles_for_llm(articles, mode, top_n, threshold)
              IN  /\ C24_BestFirst(articles', sel.chosen)
                  /\ C24_Criterion(articles', sel.chosen, mode, top_n, threshold)
                  /\ \A i \in DOMAIN articles :
                         articles'[i] \in {articles[i], Layer2Scores(articles[i])}]_vars

----------------------------------------------------------------------------
(* extractor.py: extract_article_metadata_and_text, one step of the        *)
(* cascade at a time.  The page is what each source of the page holds:     *)
(* trafilatura's text and metadata, <title> and og:title, the meta tags,   *)
(* the JSON-LD objects, __NEXT_DATA__ and the visible DOM.                 *)

\* re.sub(r"\s*[\|\-]\s*[^|\-]{2,60}$", "", s): the last part goes, when
\* there is a separator before it
_clean_title(s) == IF Len(s) > 1 THEN SubSeq(s, 1, Len(s) - 1) ELSE s

\* re.sub(r"^(by|written by)\s+", "", s, flags=re.I): one prefix goes
_clean_author(s) ==
    IF Len(s) > 1 /\ s[1] = "by" THEN Tail(s)
    ELSE IF Len(s) > 2 /\ s[1] = "written" /\ s[2] = "by" THEN Tail(Tail(s))
    ELSE s

\* _maybe_text_from_htmlish: the tags of an HTML body are stripped
_maybe_text_from_htmlish(ab) == ab.clean

\* x or y, on the titles of a page
TitleOr(x, y) == IF x /= <<>> THEN x ELSE y

\* len(text) of an Optional[str]
TextLen(text) == text.len

\* (not text) or len(text) < 200
TextWanted(text) == TextLen(text) = 0 \/ TextLen(text) < 200

PageTitles == {<<>>, <<"Blast in Quetta">>, <<"Blast in Quetta", "Dawn">>,
               <<"Blast kills five", "Pakistan", "Dawn">>}

PageAuthors == {<<>>, <<"by", "A", "Khan">>, <<"Staff", "Reporter">>}

CascadeDates == {NoStr, IsoStr(15, 1, 5), IsoStr(14, 23, 0)}

\* the pages: the titles and texts vary with the metadata fixed, and the
\* authors and dates vary with the texts fixed
Pages ==
    {[NoPage EXCEPT !.fetch_ok = TRUE, !.soup_raises = r,
                    !.meta_title = t1, !.soup_title = t2, !.og_title = t3,
                    !.extract_len = x, !.ld_body = ld, !.next_best = nx,
                    !.fallback = fb] :
        r \in BOOLEAN, t1 \in PageTitles,
        t2 \in {<<>>, <<"Blast kills five", "Pakistan", "Dawn">>},
        t3 \in {<<>>, <<"Five dead in Quetta blast">>},
        x \in {0, 60, 150, 300},
        ld \in {[len |-> 0, clean |-> 0], [len |-> 250, clean |-> 250],
                [len |-> 250, clean |-> 70]},
        nx \in {0, 260}, fb \in {0, 130}}
    \cup
    {[NoPage EXCEPT !.fetch_ok = TRUE, !.soup_raises = r, !.extract_len = x,
                    !.meta_author = a1, !.tag_author = a2, !.ld_author = a3,
                    !.meta_date = d1, !.tag_date = d2, !.ld_date = d3] :
        r \in BOOLEAN, x \in {0, 300}, a1 \in PageAuthors, a2 \in {<<>>, <<"written", "by", "B", "Ali">>},
        a3 \in {<<>>, <<"Desk">>},
        d1 \in CascadeDates, d2 \in {NoStr, IsoStr(15, 8, 0)},
        d3 \in {NoStr, IsoStr(15, 9, 0)}}
    \cup {NoPage}

InitCascade ==
    /\ articles = <<>>
    /\ national_pass = {}
    /\ threat_pass = {}
    /\ kw_args = <<>>
    /\ passes = 0
    /\ scored = FALSE
    /\ llm = LlmIdle
    /\ source = NoSource
    /\ disc = DiscIdle
    /\ worker = WorkerIdle
    /\ gui = GuiIdle
    /\ prompt = PromptIdle
    /\ \E page \in Pages : cascade = [CascadeIdle EXCEPT !.page = page]

\* _fetch_html has returned: without a page the function returns at once
FetchedPage ==
    /\ cascade.phase = "idle"
    /\ cascade' = [cascade EXCEPT
                      !.phase = IF cascade.page.fetch_ok THEN "trafilatura"
                                ELSE "returned",
                      !.notes = IF cascade.page.fetch_ok THEN <<>>
                                ELSE <<"fetch failed">>]
    /\ UNCHANGED <<wvars, gui, prompt>>

\* 1) trafilatura text + metadata
StepTrafilatura ==
    /\ cascade.phase = "trafilatura"
    /\ LET pg == cascade.page
       IN  cascade' =
             [cascade EXCEPT
                !.phase = "soup",
                !.text = IF pg.extract_len > 0
                         THEN [from |-> "trafilatura", len |-> pg.extract_len]
                         ELSE @,
                !.title = IF pg.meta_title /= <<>> /\ @ = <<>>
                          THEN _clean_title(pg.meta_title) ELSE @,
                !.author = IF pg.meta_author /= <<>> /\ @ = <<>>
                           THEN _clean_author(pg.meta_author) ELSE @,
                !.published_iso =
                    IF pg.meta_date /= NoStr /\ @ = NoStr
                    THEN _normalize_any_date_to_iso(pg.meta_date) ELSE @]
    /\ UNCHANGED <<wvars, gui, prompt>>

\* the author after the meta tags and the JSON-LD objects
SoupAuthor(pg, author) ==
    LET a1 == IF author = <<>> /\ pg.tag_author /= <<>>
              THEN _clean_author(pg.tag_author) ELSE author
    IN  IF a1 = <<>> /\ pg.ld_author /= <<>> THEN _clean_author(pg.ld_author)
        ELSE a1

\* the publish date after the meta tags and the JSON-LD objects
SoupDate(pg, published_iso) ==
    LET d1 == IF published_iso = NoStr
              THEN _normalize_any_date_to_iso(pg.tag_date) ELSE published_iso
    IN  IF d1 = NoStr /\ pg.ld_date /= NoStr
        THEN _normalize_any_date_to_iso(pg.ld_date)
        ELSE d1

\* 2) soup: <title>, og:title, the meta tags, the JSON-LD objects and their
\* articleBody; an exception of the parser ends the function
StepSoup ==
    /\ cascade.phase = "soup"
    /\ LET pg == cascade.page
           t1 == TitleOr(_clean_title(pg.soup_title), cascade.title)
           t2 == TitleOr(_clean_title(pg.og_title), t1)
           ldText == TextWanted(cascade.text) /\ pg.ld_body.len > 200
       IN  IF pg.soup_raises
           THEN cascade' =
                  IF cascade.text.len > 0
                  THEN [cascade EXCEPT !.phase = "returned",
                                       !.notes = Append(@, "ok (trafilatura only)")]
                  ELSE [cascade EXCEPT !.phase = "returned",
                                       !.title = <<>>, !.author = <<>>,
                                       !.published_iso = NoStr,
                                       !.text = NoText,
                                       !.notes = <<"soup parse failed">>]
           ELSE cascade' =
                  [cascade EXCEPT
                     !.phase = "next_data",
                     !.title = t2,
                     !.published_iso = SoupDate(pg, @),
                     !.author = SoupAuthor(pg, @),
                     !.text = IF ldText
                              THEN [from |-> "jsonld",
                                    len |-> _maybe_text_from_htmlish(pg.ld_body)]
                              ELSE @,
                     !.notes = IF ldText
                               THEN Append(@, "text from JSON-LD articleBody")
                               ELSE @]
    /\ UNCHANGED <<wvars, gui, prompt>>

\* 3) Next.js __NEXT_DATA__
StepNextData ==
    /\ cascade.phase = "next_data"
    /\ LET pg == cascade.page
           take == TextWanted(cascade.text) /\ pg.next_best >= 250
       IN  cascade' =
             [cascade EXCEPT
                !.phase = "dom",
                !.text = IF take THEN [from |-> "next_data", len |-> pg.next_best]
                         ELSE @,
                !.notes = IF take
                          THEN Append(@, "text from __NEXT_DATA__ (deep search)")
                          ELSE @]
    /\ UNCHANGED <<wvars, gui, prompt>>

\* 4) the visible DOM, as a last resort
StepDomFallback ==
    /\ cascade.phase = "dom"
    /\ LET pg == cascade.page
           take == TextWanted(cascade.text) /\ pg.fallback > 120
       IN  cascade' =
             [cascade EXCEPT
                !.phase = "final",
                !.text = IF take THEN [from |-> "dom", len |-> pg.fallback]
                         ELSE @,
                !.notes = IF take THEN Append(@, "text from DOM fallback")
                          ELSE @]
    /\ UNCHANGED <<wvars, gui, prompt>>

\* the title and the author are cleaned once more, and the function returns
\* the text when it has more than 80 characters
FinalNote ==
    /\ cascade.phase = "final"
    /\ cascade' =
         [cascade EXCEPT
            !.phase = "returned",
            !.title = IF @ /= <<>> THEN _clean_title(@) ELSE @,
            !.author = IF @ /= <<>> THEN _clean_author(@) ELSE @,
            !.text = IF @.len > 80 THEN @ ELSE NoText,
            !.notes = Append(@, IF cascade.text.len > 80 THEN "ok"
                                ELSE "no usable text extracted")]
    /\ UNCHANGED <<wvars, gui, prompt>>

NextCascade ==
    \/ FetchedPage
    \/ StepTrafilatura
    \/ StepSoup
    \/ StepNextData
    \/ StepDomFallback
    \/ FinalNote

SpecCascade == InitCascade /\ [][NextCascade]_vars

----------------------------------------------------------------------------
(* Claims about the extraction cascade (SpecCascade) *)

\* a step that follows the first one
LaterStep == StepSoup \/ StepNextData \/ StepDomFallback \/ FinalNote

\* C25: once a step of the cascade has produced a non-empty title, author
\* or publish date, no later step replaces it, and the body text of an
\* earlier step is replaced only when it is shorter than 200 characters
C25_OnlyEmptyOverwritten ==
    [][LaterStep =>
          /\ cascade.title /= <<>> => cascade'.title = cascade.title
          /\ cascade.author /= <<>> => cascade'.author = cascade.author
          /\ cascade.published_iso /= NoStr =>
                 cascade'.published_iso = cascade.published_iso
          /\ cascade.text.len >= 200 => cascade'.text = cascade.text]_vars

----------------------------------------------------------------------------
(* analysis_layers.py: _build_llm_prompt_with_budget, one iteration of its *)
(* loop at a time.  Strings are their lengths in characters: the header    *)
(* with the article's title, date, source, country and URL, the article's  *)
(* text after _safe_text, and the footer.  The article's text is made of   *)
(* words of nine letters and a space, so that a slice ends in whitespace   *)
(* when its length is a multiple of ten.                                   *)

\* text_slice = full_text[:6000]
SliceStart == 6000

\* if len(text_slice) <= 900
TinyLimit == 900

\* len("\n\nNow output the JSON object.")
FooterLen == 29

\* run_layer3_llm_scoring: the budget it passes, and the max_tokens of its
\* call of the model; _load_llama: the n_ctx the model is loaded with
max_prompt_tokens == 3200
max_tokens == 128
n_ctx == 1024

\* the header of an article with a country and nothing else, and with a
\* title and a URL of 100 characters each, and with a title of 12000
HeaderLens == {576, 776, 12576}

TextLens == {0, 450, 900, 901, 1200, 3000, 5999, 6001, 20000}

\* llm.tokenize: a token for four bytes, a token for each byte, a tokenizer
\* that always reports more tokens than the budget, and one that raises
Tokenizers == {"word", "char", "over", "raises"}

\* s[:n].rstrip(), on a slice of the article's text
RStripLen(n) == IF n > 0 /\ n % 10 = 0 THEN n - 1 ELSE n

\* the loop without its last line: the slice is never shortened
SliceKept(n) == n

\* int(len(text_slice) * 0.75)
ShrunkLen(n) == (n * 3) \div 4

\* tok_count(p), for a prompt of p characters
tok_count(tokenizer, p) ==
    IF tokenizer = "raises" THEN Max(1, p \div 3)
    ELSE IF tokenizer = "over" THEN max_prompt_tokens + 1
    ELSE IF tokenizer = "word" THEN (p \div 4) + 1
    ELSE p + 1

\* prompt = header + text_slice + footer
PromptLen(pr) == pr.header + pr.text_slice + FooterLen

InitPrompt ==
    /\ articles = <<>>
    /\ national_pass = {}
    /\ threat_pass = {}
    /\ kw_args = <<>>
    /\ passes = 0
    /\ scored = FALSE
    /\ llm = LlmIdle
    /\ source = NoSource
    /\ disc = DiscIdle
    /\ worker = WorkerIdle
    /\ gui = GuiIdle
    /\ cascade = CascadeIdle
    /\ \E h \in HeaderLens, n \in TextLens, t \in Tokenizers :
           prompt = [PromptIdle EXCEPT !.header = h, !.full_text = n,
                                       !.tokenizer = t]

\* the function is entered: the header, the footer and the first slice
BuildPrompt ==
    /\ prompt.phase = "idle"
    /\ prompt' = [prompt EXCEPT !.phase = "loop",
                                !.text_slice = Min(prompt.full_text, SliceStart)]
    /\ UNCHANGED <<wvars, gui, cascade>>

\* an iteration that finds the prompt within the budget
ReturnPrompt ==
    /\ prompt.phase = "loop"
    /\ LET n == tok_count(prompt.tokenizer, PromptLen(prompt))
       IN  /\ n <= max_prompt_tokens
           /\ prompt' = [prompt EXCEPT !.phase = "returned", !.tokens = n,
                                       !.excerpt = prompt.text_slice]
    /\ UNCHANGED <<wvars, gui, cascade>>

\* an iteration that finds the prompt over the budget and the slice short
ReturnTiny ==
    /\ prompt.phase = "loop"
    /\ LET n == tok_count(prompt.tokenizer, PromptLen(prompt))
       IN  /\ n > max_prompt_tokens
           /\ prompt.text_slice <= TinyLimit
           /\ prompt' = [prompt EXCEPT
                            !.phase = "returned", !.tokens = n,
                            !.excerpt = RStripLen(Min(prompt.text_slice, TinyLimit)),
                            !.truncated = TRUE]
    /\ UNCHANGED <<wvars, gui, cascade>>

\* an iteration that finds the prompt over the budget and shortens the slice
ShrinkSlice ==
    /\ prompt.phase = "loop"
    /\ LET n == tok_count(prompt.tokenizer, PromptLen(prompt))
       IN  /\ n > max_prompt_tokens
           /\ prompt.text_slice > TinyLimit
           /\ prompt' = [prompt EXCEPT !.tokens = n, !.retries = @ + 1,
                                       !.text_slice = ShrunkLen(@)]
    /\ UNCHANGED <<wvars, gui, cascade>>

NextPrompt ==
    \/ BuildPrompt
    \/ ReturnPrompt
    \/ ReturnTiny
    \/ ShrinkSlice

\* the function runs until it returns
SpecPrompt == InitPrompt /\ [][NextPrompt]_vars /\ WF_vars(NextPrompt)

----------------------------------------------------------------------------
(* Claims about the budgeted prompt (SpecPrompt) *)

\* C26: the prompt builder returns for every article and every tokenizer;
\* the excerpt starts at no more than 6000 characters and each retry cuts
\* it to three quarters, strictly shorter; the returned prompt is within
\* the token budget or carries an excerpt of at most 900 characters
\* followed by the [TRUNCATED] marker
C26_BudgetedPromptReturns ==
    /\ [](prompt.phase /= "idle" => prompt.text_slice <= 6000)
    /\ [][ShrinkSlice =>
             /\ prompt'.text_slice < prompt.text_slice
             /\ 4 * prompt'.text_slice <= 3 * prompt.text_slice
             /\ 4 * prompt'.text_slice > 3 * prompt.text_slice - 4]_vars
    /\ [](prompt.phase = "returned" =>
             \/ prompt.tokens <= max_prompt_tokens /\ ~prompt.truncated
             \/ prompt.truncated /\ prompt.excerpt <= 900)
    /\ <>(prompt.phase = "returned")

\* a tokenizer that is always over the budget, or raises, was given an
\* article longer than the first slice: the builder retried and returned
\* the truncated excerpt
C26_Witness ==
    /\ prompt.phase = "returned"
    /\ prompt.tokenizer \in {"over", "raises"}
    /\ prompt.full_text > 6000
    /\ prompt.retries > 1
    /\ prompt.truncated

\* C27: a prompt accepted as within the budget leaves room for the 128
\* generated tokens in the context the model was loaded with
C27_PromptFitsContext ==
    (prompt.phase = "returned" /\ ~prompt.truncated
        /\ prompt.tokenizer \in {"word", "char"})
        => prompt.tokens + max_tokens <= n_ctx

============================================================================
